---- MODULE Spec2Model ----
(***************************************************************************)
(* repmgrd (src/repmgrd.c): the per-node control loop of the replication   *)
(* manager daemon and the distributed failover decision.                   *)
(*                                                                         *)
(* One daemon runs beside every standby.  The cluster has one original     *)
(* primary (node PrimaryId) and the standbys Standbys, all attached to it. *)
(* The primary fails once and may come back once.  Each daemon is a        *)
(* sequential process; pc[n] is its position in repmgrd.c.  The database   *)
(* of every node holds the voting state that the daemons of other nodes    *)
(* read and write through transient connections.                           *)
(***************************************************************************)
EXTENDS Integers, Sequences, FiniteSets, TLC

(* ------------------------------ bounds -------------------------------- *)
NumStandbys == 3
MaxDaemons == 2
MaxLsn == 2
MaxPriority == 1
MaxPollNodes == 3
MaxPollPriority == 2

(* ------------------------- program constants -------------------------- *)
max_attempts == 5
wait_primary_timeout == 60
InvalidXLogRecPtr == 0

PrimaryId == 1
NoNode == 0
Standbys == (PrimaryId + 1)..(PrimaryId + NumStandbys)

(* enum NodeStatus *)
NodeStatus == {"UNKNOWN", "UP", "DOWN"}

(* enum FailoverState *)
FailoverState ==
    {"UNKNOWN", "NONE", "PROMOTED", "PROMOTION_FAILED", "PRIMARY_REAPPEARED",
     "LOCAL_NODE_FAILURE", "WAITING_NEW_PRIMARY", "FOLLOWED_NEW_PRIMARY",
     "FOLLOWING_ORIGINAL_PRIMARY", "NO_NEW_PRIMARY", "FOLLOW_FAIL",
     "NODE_NOTIFICATION_ERROR"}

(* enum ElectionResult; "NONE" stands for "do_election has not returned" *)
ElectionResult == {"NOT_CANDIDATE", "WON", "LOST"}

(* enum NodeVotingStatus (voting.h) *)
NodeVotingStatus == {"NO_VOTE", "VOTE_REQUEST_RECEIVED", "VOTE_INITIATED", "UNKNOWN"}

(* PGconn handles: NULL, an open session, a failed session object, or a    *)
(* handle that was passed to PQfinish and not reassigned.                  *)
ConnState == {"null", "ok", "bad", "closed"}

VARIABLES
    (* environment *)
    primary_state,      \* "up" | "down" | "reappeared": the original primary
    links,              \* set of {a, b}: standbys that can reach each other
    active,             \* standbys whose node record is active
    lsn,                \* lsn[n]: replication position of standby n
    priority,           \* priority[n]: node record priority
    failover_mode,      \* failover_mode[n]: "automatic" | "manual", from n's configuration file
    local_down,         \* nodes of Standbys whose own database is stopped
    (* database-side state of every standby *)
    voting_status,      \* NodeVotingStatus held in shared memory of n's database
    follow_target,      \* id written by notify_follow_primary, NoNode if none
    node_role,          \* "standby" | "primary": recovery type of n's database
    (* daemon state, module scope of repmgrd.c *)
    pc,
    local_node_info,    \* [type, upstream_node_id, last_wal_receive_lsn]
    upstream_node_info, \* node_id of the upstream record
    local_conn,
    upstream_conn,
    primary_conn,
    failover_state,
    standby_nodes,      \* sequence of sibling records
    startup_event_logged,
    start_events,       \* start_events[n]: number of repmgrd_start events n has recorded
    events,             \* event names recorded by the daemon of n
    (* locals of the running functions *)
    node_status,        \* node_status of monitor_streaming_primary
    upstream_node_status,
    reconnect_i,        \* i of try_reconnect
    cell,               \* position in standby_nodes of the running loop
    votes_for_me,
    visible_nodes,
    other_node_is_candidate,
    other_node_is_ahead,
    election_result,
    wait_i,             \* i of wait_primary_notification
    new_primary_id,
    (* history of the current failover attempt *)
    hist,
    cmd_failed,         \* a promote or follow command has exited non-zero
    (* signals *)
    got_SIGHUP,         \* the flag of line 78, of every daemon
    in_command,         \* in_command[n]: system() of n has not returned yet
    (* poll_best_candidate applied to arbitrary inputs *)
    poll

vars ==
    <<primary_state, links, active, lsn, priority, failover_mode, local_down,
      node_status, voting_status,
      follow_target, node_role, pc, local_node_info, upstream_node_info, local_conn,
      upstream_conn, primary_conn, failover_state, standby_nodes,
      startup_event_logged, start_events, events, upstream_node_status, reconnect_i, cell,
      votes_for_me, visible_nodes, other_node_is_candidate, other_node_is_ahead,
      election_result, wait_i, new_primary_id, hist, cmd_failed, got_SIGHUP,
      in_command, poll>>

signalVars == <<got_SIGHUP, in_command>>

staticVars == <<links, active, lsn, priority, failover_mode, local_down, poll>>

electionVars ==
    <<cell, votes_for_me, visible_nodes, other_node_is_candidate,
      other_node_is_ahead, election_result>>

(* ----------------------------- helpers -------------------------------- *)

(* the history kept for one failover attempt of one node *)
NoHistory ==
    [claimed |-> FALSE,         \* set_voting_status_initiated was called
     opened |-> {},             \* siblings do_election opened a connection to
     accepted |-> {},           \* siblings whose announce_candidature returned true
     granted |-> {},            \* siblings whose request_vote returned 1
     rivals |-> {},             \* siblings that had claimed candidacy when announced to
     notified |-> {},           \* <<peer, target>> of every notify_follow_primary sent
     siblings |-> {},           \* the siblings of the list do_election built
     requested |-> {},          \* siblings request_vote was sent to
     commands |-> 0,            \* promote and follow commands run by system()
     listed |-> {},             \* the siblings of the list when the switch was entered
     promote_result |-> "NONE", \* what promote_self returned
     promote_via |-> "NONE",    \* the election result that led to promote_self
     promote_r |-> 0,           \* exit status of the promote command
     primary_found |-> NoNode,  \* what get_primary_connection reported
     returned |-> FALSE,        \* the switch on failover_state was left
     followed |-> NoNode,       \* the node follow_new_primary succeeded in following
     follow_ran |-> FALSE]      \* follow_new_primary ran the follow command

RECURSIVE SeqOfSet(_)
SeqOfSet(S) ==
    IF S = {} THEN <<>>
    ELSE LET m == CHOOSE x \in S : \A y \in S : x <= y
         IN <<m>> \o SeqOfSet(S \ {m})

Reachable(n, m) == {n, m} \in links

PrimaryAvailable == primary_state # "down"

(* is_server_available(conninfo of node u), probed from node n *)
is_server_available(n, u) ==
    IF u = PrimaryId THEN PrimaryAvailable
    ELSE IF u = n THEN n \notin local_down
    ELSE u \in Standbys /\ u \notin local_down /\ Reachable(n, u)

(* establish_db_connection(conninfo of node u, false), from node n *)
establish_db_connection(n, u) ==
    IF is_server_available(n, u) THEN "ok" ELSE "bad"

(* get_active_sibling_node_records(local_conn, self, upstream): the active  *)
(* nodes attached to the same upstream, self excluded, in node_id order     *)
get_active_sibling_node_records(n, conn) ==
    IF conn # "ok" THEN <<>>
    ELSE LET ids == SeqOfSet(active \ {n})
         IN [i \in 1..Len(ids) |->
                [node_id |-> ids[i],
                 last_wal_receive_lsn |-> lsn[ids[i]],
                 priority |-> priority[ids[i]],
                 is_visible |-> FALSE,
                 conn |-> "null"]]

(* get_voting_status(conn) *)
get_voting_status(n) ==
    IF local_conn[n] = "ok" THEN voting_status[n] ELSE "UNKNOWN"

(* announce_candidature(conn to p, ...): false iff p declared itself candidate *)
announce_candidature(p) == voting_status[p] # "VOTE_INITIATED"

(* request_vote(conn to p, ...): the votes p may return.  A node that marked *)
(* itself candidate rejects every vote request (repmgrd.c:1362).            *)
request_vote(p) ==
    IF voting_status[p] = "VOTE_INITIATED" THEN {0} ELSE {0, 1}

(* the voting status of p after it served a vote request *)
VotingStatusAfterRequest(p) ==
    IF voting_status[p] = "NO_VOTE" THEN "VOTE_REQUEST_RECEIVED"
    ELSE voting_status[p]

(* one iteration of the loop of poll_best_candidate *)
PollBestStep(best, c) ==
    IF c.last_wal_receive_lsn > best.last_wal_receive_lsn THEN c
    ELSE IF c.last_wal_receive_lsn = best.last_wal_receive_lsn
         THEN (IF c.priority > best.priority THEN c ELSE best)
    ELSE IF c.node_id < best.node_id THEN c
    ELSE best

RECURSIVE PollBestFrom(_, _, _)
PollBestFrom(best, nodes, i) ==
    IF i > Len(nodes) THEN best
    ELSE PollBestFrom(PollBestStep(best, nodes[i]), nodes, i + 1)

(* poll_best_candidate(&standby_nodes), local being local_node_info *)
poll_best_candidate(local, nodes) == PollBestFrom(local, nodes, 1)

(* the local node as poll_best_candidate sees it *)
LocalCandidate(n) ==
    [node_id |-> n,
     last_wal_receive_lsn |-> local_node_info[n].last_wal_receive_lsn,
     priority |-> priority[n]]

(* lines 887-911: the local connection is reopened when it is not OK; the   *)
(* session may fail to open                                                 *)
LocalConnAfterCheck(n, reopened) ==
    IF local_conn[n] = "ok" THEN "ok"
    ELSE IF reopened THEN "ok" ELSE "bad"

(* --------------------------- initial state ---------------------------- *)

(* failover_mode of the configuration file *)
FailoverMode == {"automatic", "manual"}

(* the standbys whose daemon is started when the failover mode varies *)
ModeDaemons == {PrimaryId + 1, PrimaryId + 2}

AllLinks == {{a, b} : a, b \in Standbys} \ {{a} : a \in Standbys}

PollNodes == 1..MaxPollNodes

NoPoll == [attrs |-> <<>>, members |-> {}, best |-> <<>>]

(* The state of every daemon when main() is entered (file-scope            *)
(* initialisers, lines 58-72, and the node record read at line 337).  run  *)
(* is the set of nodes whose daemon is started; the nodes of primaries are *)
(* registered as primary, the others as standbys attached to the primary.  *)
InitCluster(run, primaries) ==
    /\ primary_state = "up"
    /\ local_down = {}
    /\ node_status = [n \in Standbys |-> "UP"]
    /\ follow_target = [n \in Standbys |-> NoNode]
    /\ node_role = [n \in Standbys |-> IF n \in primaries THEN "primary" ELSE "standby"]
    /\ pc = [n \in Standbys |-> IF n \in run THEN "main" ELSE "stopped"]
    /\ local_node_info =
           [n \in Standbys |->
               [type |-> IF n \in primaries THEN "PRIMARY" ELSE "STANDBY",
                upstream_node_id |-> IF n \in primaries THEN NoNode ELSE PrimaryId,
                last_wal_receive_lsn |-> InvalidXLogRecPtr]]
    /\ upstream_node_info = [n \in Standbys |-> NoNode]
    /\ local_conn = [n \in Standbys |-> IF n \in run THEN "ok" ELSE "null"]
    /\ upstream_conn = [n \in Standbys |-> "null"]
    /\ primary_conn = [n \in Standbys |-> "null"]
    /\ failover_state = [n \in Standbys |-> "UNKNOWN"]
    /\ standby_nodes = [n \in Standbys |-> <<>>]
    /\ startup_event_logged = [n \in Standbys |-> FALSE]
    /\ start_events = [n \in Standbys |-> 0]
    /\ events = [n \in Standbys |-> {}]
    /\ upstream_node_status = [n \in Standbys |-> "UP"]
    /\ reconnect_i = [n \in Standbys |-> 0]
    /\ cell = [n \in Standbys |-> 0]
    /\ votes_for_me = [n \in Standbys |-> 0]
    /\ visible_nodes = [n \in Standbys |-> 1]
    /\ other_node_is_candidate = [n \in Standbys |-> FALSE]
    /\ other_node_is_ahead = [n \in Standbys |-> FALSE]
    /\ election_result = [n \in Standbys |-> "NONE"]
    /\ wait_i = [n \in Standbys |-> 0]
    /\ new_primary_id = [n \in Standbys |-> NoNode]
    /\ hist = [n \in Standbys |-> NoHistory]
    /\ cmd_failed = FALSE
    /\ got_SIGHUP = [n \in Standbys |-> FALSE]
    /\ in_command = [n \in Standbys |-> FALSE]

(* every node registered as a standby of the primary *)
InitDaemons(run) == InitCluster(run, {})

(* The cluster: at most MaxDaemons standbys have an active node record,    *)
(* and the daemon of each of them runs.  A standby whose record is         *)
(* inactive is in no sibling list and plays no part: the active standbys   *)
(* are taken to be those of lowest id, and the attributes of the others    *)
(* are fixed, so that they do not multiply the initial states.             *)
Init ==
    /\ \E k \in 1..MaxDaemons : active = (PrimaryId + 1)..(PrimaryId + k)
    /\ links \in SUBSET {l \in AllLinks : l \subseteq active}
    /\ lsn \in [Standbys -> 1..MaxLsn]
    /\ priority \in [Standbys -> 1..MaxPriority]
    /\ \A n \in Standbys \ active : lsn[n] = 1 /\ priority[n] = 1
    /\ failover_mode = [n \in Standbys |-> "automatic"]
    /\ voting_status = [n \in Standbys |-> "NO_VOTE"]
    /\ InitDaemons(active)
    /\ poll = NoPoll

(* One daemon among siblings whose daemons are not running: every standby  *)
(* is active, the databases of the siblings answer, and a sibling may have *)
(* been left as candidate by its daemon before it stopped.  Links between  *)
(* two siblings are not used by anyone and are left out.                   *)
InitSolo ==
    /\ active = Standbys
    /\ failover_mode = [n \in Standbys |-> "automatic"]
    /\ lsn \in [Standbys -> 1..MaxLsn]
    /\ priority \in [Standbys -> 1..MaxPriority]
    /\ \E n \in Standbys :
         /\ links \in SUBSET {l \in AllLinks : n \in l}
         /\ voting_status \in [Standbys -> {"NO_VOTE", "VOTE_INITIATED"}]
         /\ voting_status[n] = "NO_VOTE"
         /\ InitDaemons({n})
    /\ poll = NoPoll

(* ----------------------------- scheduling ---------------------------- *)

(* A daemon inside the retry loop of try_reconnect or the polling loop of   *)
(* wait_primary_notification, between its first and its last iteration.    *)
(* These iterations read the availability of the upstream, or the own      *)
(* follow notification, and write only the loop counter, so they commute    *)
(* with every step of the other daemons: it is enough to explore the runs   *)
(* in which the iterations after the first follow each other with only the  *)
(* environment acting in between.  Notifications written by a peer, and     *)
(* any other step of a peer, are explored before the first iteration and    *)
(* after the last one.                                                      *)
InRetryLoop(m) ==
    \/ pc[m] = "try_reconnect" /\ reconnect_i[m] \in 1..(max_attempts - 1)
    \/ /\ pc[m] = "wait_primary_notification"
       /\ wait_i[m] \in 1..(wait_primary_timeout - 1)

Scheduled(n) == \A m \in Standbys \ {n} : ~InRetryLoop(m)

(* ---------------------------- environment ----------------------------- *)

(* the original primary fails *)
KillPrimary ==
    /\ primary_state = "up"
    /\ primary_state' = "down"
    /\ UNCHANGED <<staticVars, signalVars, node_status, cmd_failed, voting_status, follow_target, node_role, pc,
                   local_node_info, upstream_node_info, local_conn,
                   upstream_conn, primary_conn, failover_state, standby_nodes,
                   startup_event_logged, start_events, events, upstream_node_status,
                   reconnect_i, electionVars, wait_i, new_primary_id, hist>>

(* the original primary comes back *)
PrimaryReappears ==
    /\ primary_state = "down"
    /\ primary_state' = "reappeared"
    /\ UNCHANGED <<staticVars, signalVars, node_status, cmd_failed, voting_status, follow_target, node_role, pc,
                   local_node_info, upstream_node_info, local_conn,
                   upstream_conn, primary_conn, failover_state, standby_nodes,
                   startup_event_logged, start_events, events, upstream_node_status,
                   reconnect_i, electionVars, wait_i, new_primary_id, hist>>

(* ------------------------------- main --------------------------------- *)

(* every node whose record is inactive is refused *)
StartupRefusedInactive(is_active, mode) == ~is_active

(* main(), lines 363-382: terminate(ERR_BAD_CONFIG) for a node whose       *)
(* record is inactive when failover_mode is automatic                      *)
StartupRefused(is_active, mode) == ~is_active /\ mode = "automatic"

(* main(), lines 323-428: a refused node ends the process with             *)
(* ERR_BAD_CONFIG (pc = "exited"), otherwise monitoring starts             *)
Main(n) ==
    /\ pc[n] = "main"
    /\ Scheduled(n)
    /\ IF StartupRefused(n \in active, failover_mode[n])
       THEN /\ local_conn' = [local_conn EXCEPT ![n] = "closed"]
            /\ pc' = [pc EXCEPT ![n] = "exited"]
       ELSE /\ pc' = [pc EXCEPT ![n] = "start_monitoring"]
            /\ UNCHANGED local_conn
    /\ UNCHANGED <<staticVars, signalVars, node_status, cmd_failed, primary_state, voting_status, follow_target,
                   node_role, local_node_info, upstream_node_info,
                   upstream_conn, primary_conn, failover_state, standby_nodes,
                   startup_event_logged, start_events, events, upstream_node_status,
                   reconnect_i, electionVars, wait_i, new_primary_id, hist>>

(* every node is monitored as a standby *)
MonitorForStandby(type) == "monitor_streaming_standby"

(* start_monitoring(), lines 447-455: the switch on local_node_info.type *)
MonitorFor(type) ==
    IF type = "PRIMARY" THEN "monitor_streaming_primary"
    ELSE "monitor_streaming_standby"

(* start_monitoring(), one iteration of its loop: reset_node_voting_status *)
(* (lines 1481-1492), then the dispatch on local_node_info.type            *)
StartMonitoring(n) ==
    /\ pc[n] = "start_monitoring"
    /\ Scheduled(n)
    /\ failover_state' = [failover_state EXCEPT ![n] = "NONE"]
    /\ IF local_conn[n] = "ok"
       THEN /\ voting_status' = [voting_status EXCEPT ![n] = "NO_VOTE"]
            /\ follow_target' = [follow_target EXCEPT ![n] = NoNode]
       ELSE UNCHANGED <<voting_status, follow_target>>
    /\ pc' = [pc EXCEPT ![n] = MonitorFor(local_node_info[n].type)]
    /\ UNCHANGED <<staticVars, signalVars, node_status, cmd_failed, primary_state, node_role, local_node_info,
                   upstream_node_info, local_conn, upstream_conn, primary_conn,
                   standby_nodes, startup_event_logged, start_events, events,
                   upstream_node_status, reconnect_i, electionVars, wait_i,
                   new_primary_id, hist>>

(* the startup event is recorded at every entry to a monitor *)
EmitsStartAlways(logged) == TRUE

(* lines 476 and 616: the test that guards the startup event *)
EmitsStart(logged) == ~logged

(* monitor_streaming_primary(), lines 472-500: entry and startup event *)
MonitorPrimaryEntry(n) ==
    /\ pc[n] = "monitor_streaming_primary"
    /\ Scheduled(n)
    /\ events' = [events EXCEPT ![n] =
                     IF EmitsStart(startup_event_logged[n])
                     THEN @ \cup {"repmgrd_start"} ELSE @]
    /\ start_events' = [start_events EXCEPT ![n] =
                           IF EmitsStart(startup_event_logged[n]) THEN @ + 1 ELSE @]
    /\ startup_event_logged' = [startup_event_logged EXCEPT ![n] = TRUE]
    /\ node_status' = [node_status EXCEPT ![n] = "UP"]
    /\ pc' = [pc EXCEPT ![n] = "primary_loop"]
    /\ UNCHANGED <<staticVars, signalVars, cmd_failed, primary_state, voting_status, follow_target,
                   node_role, local_node_info, upstream_node_info, local_conn,
                   upstream_conn, primary_conn, failover_state, standby_nodes,
                   upstream_node_status, reconnect_i, electionVars, wait_i,
                   new_primary_id, hist>>

(* monitor_streaming_standby(), lines 603-640: entry *)
MonitorStandbyEntry(n) ==
    /\ pc[n] = "monitor_streaming_standby"
    /\ Scheduled(n)
    /\ LET up == IF local_conn[n] = "ok"
                 THEN local_node_info[n].upstream_node_id
                 ELSE upstream_node_info[n]
           conn == establish_db_connection(n, up)
       IN /\ upstream_node_info' = [upstream_node_info EXCEPT ![n] = up]
          /\ upstream_conn' = [upstream_conn EXCEPT ![n] = conn]
          /\ primary_conn' = [primary_conn EXCEPT ![n] = conn]
    /\ upstream_node_status' = [upstream_node_status EXCEPT ![n] = "UP"]
    /\ events' = [events EXCEPT ![n] =
                     IF EmitsStart(startup_event_logged[n])
                     THEN @ \cup {"repmgrd_start"} ELSE @]
    /\ start_events' = [start_events EXCEPT ![n] =
                           IF EmitsStart(startup_event_logged[n]) THEN @ + 1 ELSE @]
    /\ startup_event_logged' = [startup_event_logged EXCEPT ![n] = TRUE]
    /\ pc' = [pc EXCEPT ![n] = "standby_loop"]
    /\ UNCHANGED <<staticVars, signalVars, node_status, cmd_failed, primary_state, voting_status, follow_target,
                   node_role, local_node_info, local_conn, failover_state,
                   standby_nodes, reconnect_i, electionVars, wait_i,
                   new_primary_id, hist>>

(* monitor_streaming_standby(), lines 642-662 and 855-913: one tick of the *)
(* loop.  An upstream that was UP and is unavailable is closed and         *)
(* try_reconnect is entered; otherwise only the local connection is        *)
(* checked.  primary_conn still points at the closed upstream connection.  *)
StandbyLoop(n) ==
    /\ pc[n] = "standby_loop"
    /\ Scheduled(n)
    /\ IF /\ ~is_server_available(n, upstream_node_info[n])
          /\ upstream_node_status[n] = "UP"
       THEN /\ upstream_node_status' = [upstream_node_status EXCEPT ![n] = "UNKNOWN"]
            /\ upstream_conn' = [upstream_conn EXCEPT ![n] = "closed"]
            /\ primary_conn' = [primary_conn EXCEPT ![n] = "closed"]
            /\ reconnect_i' = [reconnect_i EXCEPT ![n] = 0]
            /\ pc' = [pc EXCEPT ![n] = "try_reconnect"]
            /\ UNCHANGED local_conn
       ELSE /\ \E reopened \in BOOLEAN :
                 local_conn' = [local_conn EXCEPT ![n] = LocalConnAfterCheck(n, reopened)]
            /\ UNCHANGED <<upstream_node_status, upstream_conn, primary_conn,
                           reconnect_i, pc>>
    /\ UNCHANGED <<staticVars, signalVars, node_status, cmd_failed, primary_state, voting_status, follow_target,
                   node_role, local_node_info, upstream_node_info,
                   failover_state, standby_nodes, startup_event_logged, start_events, events,
                   electionVars, wait_i, new_primary_id, hist>>

(* the session that was opened is returned without a look at its status *)
ReconnectedOnProbe(available, opened) == available

(* try_reconnect(), lines 1700-1711: an attempt succeeds when the probe    *)
(* finds the server available and the session opened to it is OK           *)
Reconnected(available, opened) == available /\ opened

(* an election whatever try_reconnect reported *)
AfterReconnectElects(status) == "do_election"

(* monitor_streaming_standby(), lines 657-665: where control goes with the *)
(* status try_reconnect reported                                           *)
AfterReconnect(status) ==
    IF status = "DOWN" THEN "do_election" ELSE "standby_loop"

(* try_reconnect(), lines 1687-1723, called at line 655: one attempt, or   *)
(* the return of DOWN after max_attempts; UP goes to "loop:" (line 855)    *)
TryReconnect(n) ==
    /\ pc[n] = "try_reconnect"
    /\ Scheduled(n)
    /\ IF reconnect_i[n] < max_attempts
       THEN \E opened, reopened \in BOOLEAN :
              IF Reconnected(is_server_available(n, upstream_node_info[n]), opened)
              THEN /\ upstream_node_status' = [upstream_node_status EXCEPT ![n] = "UP"]
                   /\ upstream_conn' = [upstream_conn EXCEPT ![n] =
                                            IF opened THEN "ok" ELSE "bad"]
                   /\ local_conn' = [local_conn EXCEPT ![n] = LocalConnAfterCheck(n, reopened)]
                   /\ pc' = [pc EXCEPT ![n] = AfterReconnect("UP")]
                   /\ UNCHANGED reconnect_i
              ELSE /\ reconnect_i' = [reconnect_i EXCEPT ![n] = @ + 1]
                   /\ UNCHANGED <<upstream_node_status, upstream_conn, local_conn, pc>>
       ELSE /\ upstream_node_status' = [upstream_node_status EXCEPT ![n] = "DOWN"]
            /\ upstream_conn' = [upstream_conn EXCEPT ![n] = "null"]
            /\ pc' = [pc EXCEPT ![n] = AfterReconnect("DOWN")]
            /\ UNCHANGED <<reconnect_i, local_conn>>
    /\ UNCHANGED <<staticVars, signalVars, node_status, cmd_failed, primary_state, voting_status, follow_target,
                   node_role, local_node_info, upstream_node_info, primary_conn,
                   failover_state, standby_nodes, startup_event_logged, start_events, events,
                   electionVars, wait_i, new_primary_id, hist>>

(* ----------------------------- do_election ---------------------------- *)

(* a vote request received earlier does not prevent the candidature *)
VoteAlreadyRequestedNever(status) == FALSE

(* do_election(), line 1354: the test of the own voting status *)
VoteAlreadyRequested(status) == status = "VOTE_REQUEST_RECEIVED"

(* do_election(), lines 1317-1359: the locals are initialised, the local   *)
(* LSN is invalidated and the own voting status is read                    *)
DoElectionStart(n) ==
    /\ pc[n] = "do_election"
    /\ Scheduled(n)
    /\ votes_for_me' = [votes_for_me EXCEPT ![n] = 0]
    /\ visible_nodes' = [visible_nodes EXCEPT ![n] = 1]
    /\ other_node_is_candidate' = [other_node_is_candidate EXCEPT ![n] = FALSE]
    /\ other_node_is_ahead' = [other_node_is_ahead EXCEPT ![n] = FALSE]
    /\ cell' = [cell EXCEPT ![n] = 0]
    /\ local_node_info' =
           [local_node_info EXCEPT ![n].last_wal_receive_lsn = InvalidXLogRecPtr]
    /\ hist' = [hist EXCEPT ![n] = NoHistory]
    /\ IF VoteAlreadyRequested(get_voting_status(n))
       THEN /\ election_result' = [election_result EXCEPT ![n] = "NOT_CANDIDATE"]
            /\ pc' = [pc EXCEPT ![n] = "election_done"]
       ELSE /\ election_result' = [election_result EXCEPT ![n] = "NONE"]
            /\ pc' = [pc EXCEPT ![n] = "set_voting_status_initiated"]
    /\ UNCHANGED <<staticVars, signalVars, node_status, cmd_failed, primary_state, voting_status, follow_target,
                   node_role, upstream_node_info, local_conn, upstream_conn,
                   primary_conn, failover_state, standby_nodes,
                   startup_event_logged, start_events, events, upstream_node_status,
                   reconnect_i, wait_i, new_primary_id>>

(* an empty sibling list loses *)
NoSiblingsResultLost == "LOST"

(* do_election(), line 1384: what an empty sibling list returns *)
NoSiblingsResult == "WON"

(* do_election(), lines 1367-1385: candidacy is claimed, the sibling list  *)
(* is rebuilt, and an empty list wins by default                           *)
DoElectionClaim(n) ==
    /\ pc[n] = "set_voting_status_initiated"
    /\ Scheduled(n)
    /\ voting_status' = [voting_status EXCEPT ![n] =
                            IF local_conn[n] = "ok" THEN "VOTE_INITIATED" ELSE @]
    /\ LET nodes == get_active_sibling_node_records(n, local_conn[n])
       IN /\ standby_nodes' = [standby_nodes EXCEPT ![n] = nodes]
          /\ hist' = [hist EXCEPT ![n].claimed = TRUE,
                                  ![n].siblings =
                                      {nodes[i].node_id : i \in 1..Len(nodes)}]
          /\ IF Len(nodes) = 0
             THEN /\ election_result' = [election_result EXCEPT ![n] = NoSiblingsResult]
                  /\ pc' = [pc EXCEPT ![n] = "election_done"]
                  /\ UNCHANGED cell
             ELSE /\ cell' = [cell EXCEPT ![n] = 1]
                  /\ pc' = [pc EXCEPT ![n] = "announce_candidature"]
                  /\ UNCHANGED election_result
    /\ UNCHANGED <<staticVars, signalVars, node_status, cmd_failed, primary_state, follow_target, node_role,
                   local_node_info, upstream_node_info, local_conn,
                   upstream_conn, primary_conn, failover_state,
                   startup_event_logged, start_events, events, upstream_node_status,
                   reconnect_i, votes_for_me, visible_nodes,
                   other_node_is_candidate, other_node_is_ahead, wait_i,
                   new_primary_id>>

(* a rejected announcement is taken as an acceptance *)
WithdrawsNever(accepted) == FALSE

(* do_election(), lines 1417-1424: the candidature is withdrawn when       *)
(* announce_candidature returns false                                      *)
Withdraws(accepted) == ~accepted

(* do_election(), lines 1387-1442: one iteration of the announcement loop. *)
(* A sibling that is itself candidate ends the election (lines 1425-1433). *)
(* After the last sibling the local LSN is read (line 1438).               *)
DoElectionAnnounce(n) ==
    /\ pc[n] = "announce_candidature"
    /\ Scheduled(n)
    /\ LET i == cell[n]
           p == standby_nodes[n][i].node_id
           conn == establish_db_connection(n, p)
           last == i = Len(standby_nodes[n])
       IN IF conn # "ok"
          THEN /\ standby_nodes' =
                      [standby_nodes EXCEPT ![n][i].is_visible = FALSE,
                                            ![n][i].conn = conn]
               /\ cell' = [cell EXCEPT ![n] = IF last THEN 1 ELSE i + 1]
               /\ pc' = [pc EXCEPT ![n] = IF last THEN "request_vote" ELSE @]
               /\ local_node_info' =
                      [local_node_info EXCEPT ![n].last_wal_receive_lsn =
                           IF last THEN lsn[n] ELSE @]
               /\ hist' = [hist EXCEPT ![n].opened = @ \cup {p}]
               /\ UNCHANGED <<visible_nodes, other_node_is_candidate, election_result>>
          ELSE IF Withdraws(announce_candidature(p))
          THEN /\ other_node_is_candidate' = [other_node_is_candidate EXCEPT ![n] = TRUE]
               /\ standby_nodes' = [standby_nodes EXCEPT ![n] = <<>>]
               /\ election_result' = [election_result EXCEPT ![n] = "NOT_CANDIDATE"]
               /\ pc' = [pc EXCEPT ![n] = "election_done"]
               /\ hist' = [hist EXCEPT ![n].opened = @ \cup {p},
                                       ![n].rivals =
                                           @ \cup {q \in {p} : voting_status[q] = "VOTE_INITIATED"}]
               /\ UNCHANGED <<cell, visible_nodes, local_node_info>>
          ELSE /\ standby_nodes' =
                      [standby_nodes EXCEPT ![n][i].is_visible = TRUE,
                                            ![n][i].conn = conn]
               /\ visible_nodes' = [visible_nodes EXCEPT ![n] = @ + 1]
               /\ cell' = [cell EXCEPT ![n] = IF last THEN 1 ELSE i + 1]
               /\ pc' = [pc EXCEPT ![n] = IF last THEN "request_vote" ELSE @]
               /\ local_node_info' =
                      [local_node_info EXCEPT ![n].last_wal_receive_lsn =
                           IF last THEN lsn[n] ELSE @]
               /\ hist' = [hist EXCEPT ![n].opened = @ \cup {p},
                                       ![n].accepted = @ \cup {p},
                                       ![n].rivals =
                                           @ \cup {q \in {p} : voting_status[q] = "VOTE_INITIATED"}]
               /\ UNCHANGED <<other_node_is_candidate, election_result>>
    /\ UNCHANGED <<staticVars, signalVars, node_status, cmd_failed, primary_state, voting_status, follow_target,
                   node_role, upstream_node_info, local_conn, upstream_conn,
                   primary_conn, failover_state, startup_event_logged, start_events, events,
                   upstream_node_status, reconnect_i, votes_for_me,
                   other_node_is_ahead, wait_i, new_primary_id>>

(* a majority of the visible nodes is enough *)
TallyMajority(votes, visible) == IF 2 * votes > visible THEN "WON" ELSE "LOST"

(* the result of do_election, lines 1474-1477 *)
Tally(votes, visible) == IF votes = visible THEN "WON" ELSE "LOST"

(* do_election(), lines 1446-1477: one iteration of the vote loop; after   *)
(* the last sibling the own vote is added and the result returned          *)
DoElectionRequestVote(n) ==
    /\ pc[n] = "request_vote"
    /\ Scheduled(n)
    /\ LET i == cell[n]
           c == standby_nodes[n][i]
           p == c.node_id
           last == i = Len(standby_nodes[n])
       IN \E v \in request_vote(p) :
            LET voted == c.is_visible
                polled == IF voted THEN votes_for_me[n] + v ELSE votes_for_me[n]
                ahead == IF other_node_is_ahead[n] THEN TRUE
                         ELSE voted /\ lsn[p] > local_node_info[n].last_wal_receive_lsn
                votes == IF last /\ ~ahead THEN polled + 1 ELSE polled
            IN /\ votes_for_me' = [votes_for_me EXCEPT ![n] = votes]
               /\ other_node_is_ahead' = [other_node_is_ahead EXCEPT ![n] = ahead]
               /\ standby_nodes' =
                      [standby_nodes EXCEPT ![n][i] =
                           IF voted
                           THEN [c EXCEPT !.last_wal_receive_lsn = lsn[p],
                                          !.conn = "null"]
                           ELSE c]
               /\ voting_status' =
                      [voting_status EXCEPT ![p] =
                           IF voted THEN VotingStatusAfterRequest(p) ELSE @]
               /\ hist' = [hist EXCEPT ![n].granted =
                              IF voted /\ v = 1 THEN @ \cup {p} ELSE @,
                                       ![n].requested =
                              IF voted THEN @ \cup {p} ELSE @]
               /\ IF last
                  THEN /\ election_result' =
                              [election_result EXCEPT ![n] =
                                   Tally(votes, visible_nodes[n])]
                       /\ pc' = [pc EXCEPT ![n] = "election_done"]
                       /\ UNCHANGED cell
                  ELSE /\ cell' = [cell EXCEPT ![n] = i + 1]
                       /\ UNCHANGED <<election_result, pc>>
    /\ UNCHANGED <<staticVars, signalVars, node_status, cmd_failed, primary_state, follow_target, node_role,
                   local_node_info, upstream_node_info, local_conn,
                   upstream_conn, primary_conn, failover_state,
                   startup_event_logged, start_events, events, upstream_node_status,
                   reconnect_i, visible_nodes, other_node_is_candidate, wait_i,
                   new_primary_id>>

(* ------------------------ failover orchestration ---------------------- *)

(* siblings whose connection is not open are skipped, never reconnected *)
NotifiedFollowersNoReconnect(n, nodes) ==
    {nodes[i].node_id : i \in {j \in 1..Len(nodes) : nodes[j].conn = "ok"}}

(* the siblings of the list that notify_followers reaches (lines 1055-1075) *)
NotifiedFollowers(n, nodes) ==
    {nodes[i].node_id : i \in {j \in 1..Len(nodes) :
        \/ nodes[j].conn = "ok"
        \/ establish_db_connection(n, nodes[j].node_id) = "ok"}}

(* notify_follow_primary(conn to p, target) for every p of the set *)
NotifyFollowPrimary(peers, target) ==
    [p \in Standbys |-> IF p \in peers THEN target ELSE follow_target[p]]

(* the candidate is notified whatever the state of the connection to it *)
CandidateStateAlwaysWaits(conn) == "WAITING_NEW_PRIMARY"

(* monitor_streaming_standby(), lines 716-729: the failover state after    *)
(* the attempt to notify the best candidate over candidate_conn            *)
CandidateState(conn) ==
    IF conn = "ok" THEN "WAITING_NEW_PRIMARY" ELSE "NODE_NOTIFICATION_ERROR"

(* monitor_streaming_standby(), lines 668-737: what follows the return of  *)
(* do_election, up to the call of promote_self or the wait                 *)
HandleElectionResult(n) ==
    /\ pc[n] = "election_done"
    /\ Scheduled(n)
    /\ IF election_result[n] = "WON"
       THEN /\ failover_state' = [failover_state EXCEPT ![n] = "UNKNOWN"]
            /\ pc' = [pc EXCEPT ![n] = "promote_self"]
            /\ hist' = [hist EXCEPT ![n].promote_via = "WON"]
            /\ UNCHANGED <<standby_nodes, follow_target, wait_i>>
       ELSE IF election_result[n] = "LOST"
       THEN LET nodes == get_active_sibling_node_records(n, local_conn[n])
                best == poll_best_candidate(LocalCandidate(n), nodes).node_id
            IN /\ standby_nodes' = [standby_nodes EXCEPT ![n] = nodes]
               /\ IF best = n
                  THEN /\ failover_state' = [failover_state EXCEPT ![n] = "UNKNOWN"]
                       /\ pc' = [pc EXCEPT ![n] = "promote_self"]
                       /\ hist' = [hist EXCEPT ![n].promote_via = "LOST"]
                       /\ UNCHANGED <<follow_target, wait_i>>
                  ELSE IF CandidateState(establish_db_connection(n, best))
                              = "WAITING_NEW_PRIMARY"
                  THEN /\ follow_target' = NotifyFollowPrimary({best}, best)
                       /\ failover_state' =
                              [failover_state EXCEPT ![n] = "WAITING_NEW_PRIMARY"]
                       /\ wait_i' = [wait_i EXCEPT ![n] = 0]
                       /\ pc' = [pc EXCEPT ![n] = "wait_primary_notification"]
                       /\ hist' = [hist EXCEPT ![n].notified = @ \cup {<<best, best>>}]
                  ELSE /\ failover_state' =
                              [failover_state EXCEPT ![n] = "NODE_NOTIFICATION_ERROR"]
                       /\ pc' = [pc EXCEPT ![n] = "failover_switch"]
                       /\ UNCHANGED <<follow_target, wait_i, hist>>
       ELSE /\ failover_state' = [failover_state EXCEPT ![n] = "WAITING_NEW_PRIMARY"]
            /\ wait_i' = [wait_i EXCEPT ![n] = 0]
            /\ pc' = [pc EXCEPT ![n] = "wait_primary_notification"]
            /\ UNCHANGED <<standby_nodes, follow_target, hist>>
    /\ UNCHANGED <<staticVars, signalVars, node_status, cmd_failed, primary_state, voting_status, node_role,
                   local_node_info, upstream_node_info, local_conn,
                   upstream_conn, primary_conn, startup_event_logged, start_events, events,
                   upstream_node_status, reconnect_i, electionVars,
                   new_primary_id>>

(* the primaries get_primary_connection(local_conn, ...) can find from n *)
ReachablePrimaries(n) ==
    (IF PrimaryAvailable THEN {PrimaryId} ELSE {})
        \cup {m \in Standbys \ {n} : node_role[m] = "primary" /\ Reachable(n, m)}

(* a failed command is PROMOTION_FAILED whatever primary is found *)
PromoteResultNoReappear(conn, r, found, failed_primary) ==
    IF conn # "ok" THEN "LOCAL_NODE_FAILURE"
    ELSE IF r # 0 THEN "PROMOTION_FAILED"
    ELSE "PROMOTED"

(* promote_self(), lines 958-1039: the value returned, given the state of  *)
(* the local connection after the command, the exit status of the command, *)
(* the primary found by get_primary_connection and the failed upstream     *)
PromoteResult(conn, r, found, failed_primary) ==
    IF conn # "ok" THEN "LOCAL_NODE_FAILURE"
    ELSE IF r # 0
    THEN (IF found # NoNode /\ found = failed_primary
          THEN "PRIMARY_REAPPEARED" ELSE "PROMOTION_FAILED")
    ELSE "PROMOTED"

(* a node whose promote command failed waits for another primary *)
WaitsForNewPrimaryAfterFailure(state) ==
    state \in {"WAITING_NEW_PRIMARY", "PROMOTION_FAILED"}

(* monitor_streaming_standby(), line 744: the test made on failover_state  *)
(* once the branches on the election result are done                       *)
WaitsForNewPrimary(state) == state = "WAITING_NEW_PRIMARY"

(* promote_self(), lines 916-1040, called at line 679 or 705              *)
(* (pc = "promote_self") or at line 763 (pc = "promote_self_notified",     *)
(* followed by the refresh of the sibling list, lines 766-770).            *)
(*   r        exit status of the promote command                           *)
(*   dropped  the local connection did not survive the command             *)
(*   reopened the local connection could be opened again                   *)
(*   found    the primary get_primary_connection reports, NoNode if none   *)
PromoteSelf(n) ==
    /\ pc[n] \in {"promote_self", "promote_self_notified"}
    /\ Scheduled(n)
    /\ \E r \in {0, 1}, dropped, reopened \in BOOLEAN,
          found \in ReachablePrimaries(n) \cup {NoNode} :
         LET conn == IF local_conn[n] = "ok" /\ ~dropped THEN "ok"
                     ELSE IF reopened THEN "ok" ELSE "bad"
             failed_primary == local_node_info[n].upstream_node_id
             result == PromoteResult(conn, r, found, failed_primary)
         IN /\ found = NoNode <=> ReachablePrimaries(n) = {}
            /\ node_role' = [node_role EXCEPT ![n] = IF r = 0 THEN "primary" ELSE @]
            /\ local_conn' = [local_conn EXCEPT ![n] = conn]
            /\ primary_conn' =
                   [primary_conn EXCEPT ![n] =
                        IF conn = "ok" /\ r # 0
                        THEN (IF found = NoNode THEN "null" ELSE "ok")
                        ELSE @]
            /\ local_node_info' =
                   [local_node_info EXCEPT ![n] =
                        IF result = "PROMOTED"
                        THEN [@ EXCEPT !.type = "PRIMARY", !.upstream_node_id = NoNode]
                        ELSE @]
            /\ events' =
                   [events EXCEPT ![n] =
                        IF result = "PRIMARY_REAPPEARED"
                        THEN @ \cup {"repmgrd_failover_abort"}
                        ELSE IF result = "PROMOTED"
                        THEN @ \cup {"repmgrd_failover_promote"}
                        ELSE @]
            /\ failover_state' = [failover_state EXCEPT ![n] = result]
            /\ hist' = [hist EXCEPT ![n].promote_result = result,
                                    ![n].commands = @ + 1,
                                    ![n].promote_r = r,
                                    ![n].primary_found =
                                        IF conn = "ok" /\ r # 0 THEN found ELSE NoNode,
                                    ![n].promote_via =
                                        IF pc[n] = "promote_self_notified"
                                        THEN "NOTIFIED" ELSE @]
            /\ cmd_failed' = (cmd_failed \/ r # 0)
            /\ standby_nodes' =
                   [standby_nodes EXCEPT ![n] =
                        IF pc[n] = "promote_self_notified"
                        THEN get_active_sibling_node_records(n, conn)
                        ELSE @]
            /\ IF pc[n] = "promote_self" /\ WaitsForNewPrimary(result)
               THEN /\ pc' = [pc EXCEPT ![n] = "wait_primary_notification"]
                    /\ wait_i' = [wait_i EXCEPT ![n] = 0]
               ELSE /\ pc' = [pc EXCEPT ![n] = "failover_switch"]
                    /\ UNCHANGED wait_i
    /\ in_command' = [in_command EXCEPT ![n] = FALSE]
    /\ UNCHANGED <<staticVars, got_SIGHUP, node_status, primary_state, voting_status,
                   follow_target,
                   upstream_node_info, upstream_conn, startup_event_logged, start_events,
                   upstream_node_status, reconnect_i, electionVars,
                   new_primary_id>>

(* the loop ends one poll early *)
WaitExpiredEarly(i) == i >= wait_primary_timeout - 1

(* wait_primary_notification(), line 1128: the loop condition has failed *)
WaitExpired(i) == i >= wait_primary_timeout

(* the lost upstream is followed like any other node *)
NotifiedDispatchNoOriginal(new_primary, upstream, self) ==
    IF new_primary = self THEN "promote_self_notified" ELSE "follow_new_primary"

(* monitor_streaming_standby(), lines 753-776: where control goes with the *)
(* id wait_primary_notification reported                                   *)
NotifiedDispatch(new_primary, upstream, self) ==
    IF new_primary = upstream THEN "failover_switch"
    ELSE IF new_primary = self THEN "promote_self_notified"
    ELSE "follow_new_primary"

(* wait_primary_notification(), lines 1121-1144, and the dispatch on its   *)
(* result, lines 751-781: one poll of get_new_primary                      *)
WaitPrimaryNotification(n) ==
    /\ pc[n] = "wait_primary_notification"
    /\ Scheduled(n)
    /\ IF ~WaitExpired(wait_i[n])
       THEN IF local_conn[n] = "ok" /\ follow_target[n] # NoNode
            THEN LET next == NotifiedDispatch(follow_target[n], upstream_node_info[n], n)
                 IN /\ new_primary_id' = [new_primary_id EXCEPT ![n] = follow_target[n]]
                    /\ pc' = [pc EXCEPT ![n] = next]
                    /\ failover_state' =
                           [failover_state EXCEPT ![n] =
                               IF next = "failover_switch"
                               THEN "FOLLOWING_ORIGINAL_PRIMARY" ELSE @]
                    /\ UNCHANGED wait_i
            ELSE /\ wait_i' = [wait_i EXCEPT ![n] = @ + 1]
                 /\ UNCHANGED <<new_primary_id, failover_state, pc>>
       ELSE /\ failover_state' = [failover_state EXCEPT ![n] = "NO_NEW_PRIMARY"]
            /\ pc' = [pc EXCEPT ![n] = "failover_switch"]
            /\ UNCHANGED <<new_primary_id, wait_i>>
    /\ UNCHANGED <<staticVars, signalVars, node_status, cmd_failed, primary_state, voting_status, follow_target,
                   node_role, local_node_info, upstream_node_info, local_conn,
                   upstream_conn, primary_conn, standby_nodes,
                   startup_event_logged, start_events, events, upstream_node_status,
                   reconnect_i, electionVars, hist>>

(* the record of the upstream is not read again *)
RefreshedUpstreamStale(result, m, old) == old

(* follow_new_primary(), line 1246: after a follow command that succeeded  *)
(* the record of the new primary is read into upstream_node_info           *)
RefreshedUpstream(result, m, old) ==
    IF result = "FOLLOWED_NEW_PRIMARY" THEN m ELSE old

(* get_recovery_type(conn to node m) *)
recovery_type(m) ==
    IF m = PrimaryId \/ node_role[m] = "primary" THEN "PRIMARY" ELSE "STANDBY"

(* the command is run whatever was found *)
FollowCommandRunsAlways(conn, rectype) == TRUE

(* follow_new_primary(), lines 1181-1200: new_primary_ok, without which    *)
(* FOLLOW_FAIL is returned before the follow command                       *)
FollowCommandRuns(conn, rectype) == conn = "ok" /\ rectype = "PRIMARY"

(* follow_new_primary(new_primary_id), lines 1147-1268.                    *)
(*   r        exit status of the follow command                            *)
(*   reopened the local connection could be opened again (line 1249)       *)
FollowNewPrimary(n) ==
    /\ pc[n] = "follow_new_primary"
    /\ Scheduled(n)
    /\ \E r \in {0, 1}, reopened \in BOOLEAN :
         LET m == new_primary_id[n]
             conn == IF in_command[n] THEN "ok" ELSE establish_db_connection(n, m)
             new_primary_ok == in_command[n] \/ FollowCommandRuns(conn, recovery_type(m))
             result ==
                 IF ~new_primary_ok THEN "FOLLOW_FAIL"
                 ELSE IF r # 0
                 THEN (IF PrimaryAvailable THEN "PRIMARY_REAPPEARED" ELSE "FOLLOW_FAIL")
                 ELSE "FOLLOWED_NEW_PRIMARY"
         IN /\ primary_conn' =
                   [primary_conn EXCEPT ![n] =
                        IF conn = "ok" /\ ~new_primary_ok THEN "closed" ELSE conn]
            /\ local_conn' =
                   [local_conn EXCEPT ![n] =
                        IF result = "FOLLOWED_NEW_PRIMARY"
                        THEN (IF reopened THEN "ok" ELSE "bad")
                        ELSE "null"]
            /\ upstream_node_info' =
                   [upstream_node_info EXCEPT ![n] = RefreshedUpstream(result, m, @)]
            /\ hist' = [hist EXCEPT ![n].followed =
                                        IF result = "FOLLOWED_NEW_PRIMARY" THEN m ELSE @,
                                    ![n].commands =
                                        IF new_primary_ok THEN @ + 1 ELSE @,
                                    ![n].follow_ran = new_primary_ok]
            /\ local_node_info' =
                   [local_node_info EXCEPT ![n] =
                        IF result = "FOLLOWED_NEW_PRIMARY"
                        THEN [@ EXCEPT !.type = "STANDBY", !.upstream_node_id = m]
                        ELSE @]
            /\ events' =
                   [events EXCEPT ![n] =
                        IF result = "FOLLOWED_NEW_PRIMARY"
                        THEN @ \cup {"repmgrd_failover_follow"} ELSE @]
            /\ failover_state' = [failover_state EXCEPT ![n] = result]
            /\ cmd_failed' = (cmd_failed \/ (new_primary_ok /\ r # 0))
    /\ pc' = [pc EXCEPT ![n] = "failover_switch"]
    /\ in_command' = [in_command EXCEPT ![n] = FALSE]
    /\ UNCHANGED <<staticVars, got_SIGHUP, node_status, primary_state, voting_status,
                   follow_target,
                   node_role, upstream_conn, standby_nodes,
                   startup_event_logged, start_events, upstream_node_status, reconnect_i,
                   electionVars, wait_i, new_primary_id>>

(* the siblings are always told to follow the local node *)
FollowTargetSelf(fs, n, upstream) == n

(* monitor_streaming_standby(), lines 790 and 805: the node the siblings   *)
(* are told to follow                                                      *)
FollowTarget(fs, n, upstream) == IF fs = "PROMOTED" THEN n ELSE upstream

(* monitor_streaming_standby(), lines 784-849: the switch on               *)
(* failover_state.  PROMOTED and PRIMARY_REAPPEARED notify the siblings    *)
(* and return to start_monitoring; the states that only "break", and those *)
(* without a case, fall through to "loop:" (lines 855-913) and stay in the *)
(* monitoring loop.                                                        *)
FailoverSwitch(n) ==
    /\ pc[n] = "failover_switch"
    /\ Scheduled(n)
    /\ LET fs == failover_state[n]
           target == FollowTarget(fs, n, upstream_node_info[n])
           peers == NotifiedFollowers(n, standby_nodes[n])
       IN IF fs \in {"PROMOTED", "PRIMARY_REAPPEARED"}
          THEN /\ follow_target' = NotifyFollowPrimary(peers, target)
               /\ hist' = [hist EXCEPT ![n].notified =
                                           @ \cup {<<p, target>> : p \in peers},
                                       ![n].listed =
                                           {standby_nodes[n][i].node_id :
                                               i \in 1..Len(standby_nodes[n])},
                                       ![n].returned = TRUE]
               /\ standby_nodes' = [standby_nodes EXCEPT ![n] = <<>>]
               /\ failover_state' = [failover_state EXCEPT ![n] = "NONE"]
               /\ pc' = [pc EXCEPT ![n] = "start_monitoring"]
               /\ UNCHANGED local_conn
          ELSE IF fs \in {"FOLLOWED_NEW_PRIMARY", "FOLLOWING_ORIGINAL_PRIMARY"}
          THEN /\ failover_state' = [failover_state EXCEPT ![n] = "NONE"]
               /\ pc' = [pc EXCEPT ![n] = "start_monitoring"]
               /\ hist' = [hist EXCEPT ![n].returned = TRUE]
               /\ UNCHANGED <<follow_target, standby_nodes, local_conn>>
          ELSE IF fs \in {"NO_NEW_PRIMARY", "WAITING_NEW_PRIMARY"}
          THEN /\ pc' = [pc EXCEPT ![n] = "start_monitoring"]
               /\ hist' = [hist EXCEPT ![n].returned = TRUE]
               /\ UNCHANGED <<follow_target, standby_nodes, local_conn,
                              failover_state>>
          ELSE /\ \E reopened \in BOOLEAN :
                    local_conn' =
                        [local_conn EXCEPT ![n] = LocalConnAfterCheck(n, reopened)]
               /\ pc' = [pc EXCEPT ![n] = "standby_loop"]
               /\ hist' = [hist EXCEPT ![n].returned = TRUE]
               /\ UNCHANGED <<follow_target, standby_nodes, failover_state>>
    /\ UNCHANGED <<staticVars, signalVars, node_status, cmd_failed, primary_state, voting_status,
                   node_role, local_node_info, upstream_node_info,
                   upstream_conn, primary_conn, startup_event_logged, start_events, events,
                   upstream_node_status, reconnect_i, electionVars, wait_i,
                   new_primary_id>>

(* a node given up as DOWN is retried like one that was UP *)
ExpectedUpOrDown(status) == status \in {"UP", "DOWN"}

(* monitor_streaming_primary(), line 511: the node was expected to be up *)
ExpectedUp(status) == status = "UP"

(* monitor_streaming_primary(), lines 502-597: one tick of the loop.  A    *)
(* local node that was UP and is unavailable is recorded as disconnected   *)
(* and try_reconnect is entered (lines 507-538); otherwise nothing changes.*)
PrimaryLoop(n) ==
    /\ pc[n] = "primary_loop"
    /\ Scheduled(n)
    /\ IF ~is_server_available(n, n) /\ ExpectedUp(node_status[n])
       THEN /\ node_status' = [node_status EXCEPT ![n] = "UNKNOWN"]
            /\ local_conn' = [local_conn EXCEPT ![n] = "closed"]
            /\ events' = [events EXCEPT ![n] = @ \cup {"repmgrd_local_disconnect"}]
            /\ reconnect_i' = [reconnect_i EXCEPT ![n] = 0]
            /\ pc' = [pc EXCEPT ![n] = "try_reconnect_local"]
       ELSE UNCHANGED <<node_status, local_conn, events, reconnect_i, pc>>
    /\ UNCHANGED <<staticVars, signalVars, cmd_failed, primary_state, voting_status, follow_target,
                   node_role, local_node_info, upstream_node_info,
                   upstream_conn, primary_conn, failover_state, standby_nodes,
                   startup_event_logged, start_events, upstream_node_status, electionVars,
                   wait_i, new_primary_id, hist>>

(* try_reconnect(), lines 1687-1723, called at line 538 on the local node, *)
(* and lines 540-569: one attempt, or the return of DOWN after             *)
(* max_attempts; a reconnection is recorded, nothing is recorded when the   *)
(* node is given up (lines 570-574 are empty), and both outcomes go to     *)
(* "loop:" (line 576)                                                      *)
TryReconnectLocal(n) ==
    /\ pc[n] = "try_reconnect_local"
    /\ Scheduled(n)
    /\ IF reconnect_i[n] < max_attempts
       THEN \E opened \in BOOLEAN :
              IF Reconnected(is_server_available(n, n), opened)
              THEN /\ node_status' = [node_status EXCEPT ![n] = "UP"]
                   /\ local_conn' = [local_conn EXCEPT ![n] =
                                         IF opened THEN "ok" ELSE "bad"]
                   /\ events' = [events EXCEPT ![n] = @ \cup {"repmgrd_local_reconnect"}]
                   /\ pc' = [pc EXCEPT ![n] = "primary_loop"]
                   /\ UNCHANGED reconnect_i
              ELSE /\ reconnect_i' = [reconnect_i EXCEPT ![n] = @ + 1]
                   /\ UNCHANGED <<node_status, local_conn, events, pc>>
       ELSE /\ node_status' = [node_status EXCEPT ![n] = "DOWN"]
            /\ local_conn' = [local_conn EXCEPT ![n] = "null"]
            /\ pc' = [pc EXCEPT ![n] = "primary_loop"]
            /\ UNCHANGED <<reconnect_i, events>>
    /\ UNCHANGED <<staticVars, signalVars, cmd_failed, primary_state, voting_status, follow_target,
                   node_role, local_node_info, upstream_node_info,
                   upstream_conn, primary_conn, failover_state, standby_nodes,
                   startup_event_logged, start_events, upstream_node_status, electionVars,
                   wait_i, new_primary_id, hist>>

(* the database of a node under primary monitoring stops *)
LocalDown(n) ==
    /\ pc[n] \in {"primary_loop", "try_reconnect_local"}
    /\ n \notin local_down
    /\ local_down' = local_down \cup {n}
    /\ UNCHANGED <<links, active, lsn, priority, failover_mode, poll, node_status,
                   signalVars,
                   cmd_failed, primary_state, voting_status, follow_target,
                   node_role, pc, local_node_info, upstream_node_info, local_conn,
                   upstream_conn, primary_conn, failover_state, standby_nodes,
                   startup_event_logged, start_events, events, upstream_node_status,
                   reconnect_i, electionVars, wait_i, new_primary_id, hist>>

(* the database of a node is started again *)
LocalUp(n) ==
    /\ n \in local_down
    /\ local_down' = local_down \ {n}
    /\ UNCHANGED <<links, active, lsn, priority, failover_mode, poll, node_status,
                   signalVars,
                   cmd_failed, primary_state, voting_status, follow_target,
                   node_role, pc, local_node_info, upstream_node_info, local_conn,
                   upstream_conn, primary_conn, failover_state, standby_nodes,
                   startup_event_logged, start_events, events, upstream_node_status,
                   reconnect_i, electionVars, wait_i, new_primary_id, hist>>

(* ---------------------------- specification --------------------------- *)

Next ==
    \/ KillPrimary
    \/ PrimaryReappears
    \/ \E n \in Standbys :
          \/ Main(n)
          \/ StartMonitoring(n)
          \/ MonitorPrimaryEntry(n)
          \/ MonitorStandbyEntry(n)
          \/ StandbyLoop(n)
          \/ TryReconnect(n)
          \/ DoElectionStart(n)
          \/ DoElectionClaim(n)
          \/ DoElectionAnnounce(n)
          \/ DoElectionRequestVote(n)
          \/ HandleElectionResult(n)
          \/ PromoteSelf(n)
          \/ WaitPrimaryNotification(n)
          \/ FollowNewPrimary(n)
          \/ FailoverSwitch(n)
          \/ PrimaryLoop(n)

Spec == Init /\ [][Next]_vars

(* one step of the daemon of standby n *)
Daemon(n) ==
    \/ Main(n)
    \/ StartMonitoring(n)
    \/ MonitorPrimaryEntry(n)
    \/ MonitorStandbyEntry(n)
    \/ StandbyLoop(n)
    \/ TryReconnect(n)
    \/ DoElectionStart(n)
    \/ DoElectionClaim(n)
    \/ DoElectionAnnounce(n)
    \/ DoElectionRequestVote(n)
    \/ HandleElectionResult(n)
    \/ PromoteSelf(n)
    \/ WaitPrimaryNotification(n)
    \/ FollowNewPrimary(n)
    \/ FailoverSwitch(n)
    \/ PrimaryLoop(n)

(* The daemons of two standbys that reach each other are started, each    *)
(* with either failover mode and with an active or an inactive record.     *)
InitMode ==
    /\ active \in SUBSET ModeDaemons
    /\ failover_mode \in [Standbys -> FailoverMode]
    /\ \A n \in Standbys \ ModeDaemons : failover_mode[n] = "automatic"
    /\ links = {ModeDaemons}
    /\ lsn = [n \in Standbys |-> 1]
    /\ priority = [n \in Standbys |-> 1]
    /\ voting_status = [n \in Standbys |-> "NO_VOTE"]
    /\ InitDaemons(ModeDaemons)
    /\ poll = NoPoll

ModeSpec == InitMode /\ [][Next]_vars

(* Two standbys that reach each other and have received the same WAL, both *)
(* daemons started.                                                        *)
InitPair ==
    /\ Init
    /\ Cardinality(active) = 2
    /\ links = {active}
    /\ \A n \in active : lsn[n] = 1

(* Every daemon is a process of its own that is never stopped for ever     *)
(* between two statements (sleep(1) and pg_usleep return).  Scheduled(n)   *)
(* switches the steps of n off while a peer is inside a retry loop, only   *)
(* to explore fewer orders, so a daemon that can step again and again does *)
(* step: strong fairness.                                                  *)
FairPairSpec ==
    InitPair /\ [][Next]_vars /\ \A n \in Standbys : SF_vars(Daemon(n))

(* the daemon of one standby, its siblings answering but not acting: no    *)
(* notification ever reaches it, so follow_new_primary is never called     *)
NextSolo ==
    \/ KillPrimary
    \/ PrimaryReappears
    \/ \E n \in Standbys :
          \/ Main(n)
          \/ StartMonitoring(n)
          \/ MonitorPrimaryEntry(n)
          \/ MonitorStandbyEntry(n)
          \/ StandbyLoop(n)
          \/ TryReconnect(n)
          \/ DoElectionStart(n)
          \/ DoElectionClaim(n)
          \/ DoElectionAnnounce(n)
          \/ DoElectionRequestVote(n)
          \/ HandleElectionResult(n)
          \/ PromoteSelf(n)
          \/ WaitPrimaryNotification(n)
          \/ FailoverSwitch(n)
          \/ PrimaryLoop(n)

SoloSpec == InitSolo /\ [][NextSolo]_vars

(* The daemons of one or two nodes registered as primary, each of its own  *)
(* cluster; the database of such a node stops and starts again.            *)
InitPrimary ==
    /\ active \in (SUBSET ModeDaemons) \ {{}}
    /\ failover_mode = [n \in Standbys |-> "automatic"]
    /\ links = {}
    /\ lsn = [n \in Standbys |-> 1]
    /\ priority = [n \in Standbys |-> 1]
    /\ voting_status = [n \in Standbys |-> "NO_VOTE"]
    /\ InitCluster(active, active)
    /\ poll = NoPoll

NextPrimary ==
    \E n \in Standbys :
        \/ LocalDown(n)
        \/ LocalUp(n)
        \/ Main(n)
        \/ StartMonitoring(n)
        \/ MonitorPrimaryEntry(n)
        \/ PrimaryLoop(n)
        \/ TryReconnectLocal(n)

PrimarySpec == InitPrimary /\ [][NextPrimary]_vars

(* ------------------------------ signals ------------------------------- *)

(* positions from which promote_self or follow_new_primary runs its command *)
CommandPcs == {"promote_self", "promote_self_notified", "follow_new_primary"}

(* the daemon is alive and its handlers are installed (line 425) *)
HandlersInstalled(n) == pc[n] \notin {"stopped", "main", "exited", "hung"}

(* system(), lines 956 and 1202: the promote or follow command is started  *)
(* and the daemon waits for it; PromoteSelf and FollowNewPrimary are the   *)
(* rest of the function, from the return of the command on.  The follow    *)
(* command is run only when the new primary was found (lines 1181-1200).   *)
CommandStart(n) ==
    /\ pc[n] \in CommandPcs
    /\ ~in_command[n]
    /\ pc[n] = "follow_new_primary" =>
          FollowCommandRuns(establish_db_connection(n, new_primary_id[n]),
                            recovery_type(new_primary_id[n]))
    /\ in_command' = [in_command EXCEPT ![n] = TRUE]
    /\ local_conn' = [local_conn EXCEPT ![n] =
                          IF pc[n] = "follow_new_primary" THEN "null" ELSE @]
    /\ primary_conn' = [primary_conn EXCEPT ![n] =
                            IF pc[n] = "follow_new_primary" THEN "ok" ELSE @]
    /\ UNCHANGED <<staticVars, node_status, got_SIGHUP, cmd_failed, primary_state,
                   voting_status, follow_target, node_role, pc, local_node_info,
                   upstream_node_info, upstream_conn,
                   failover_state, standby_nodes, startup_event_logged, start_events, events,
                   upstream_node_status, reconnect_i, electionVars, wait_i,
                   new_primary_id, hist>>

(* handle_sighup(), lines 1632-1636 *)
HandleSighup(n) ==
    /\ HandlersInstalled(n)
    /\ got_SIGHUP' = [got_SIGHUP EXCEPT ![n] = TRUE]
    /\ UNCHANGED <<staticVars, node_status, in_command, cmd_failed, primary_state,
                   voting_status, follow_target, node_role, pc, local_node_info,
                   upstream_node_info, local_conn, upstream_conn, primary_conn,
                   failover_state, standby_nodes, startup_event_logged, start_events, events,
                   upstream_node_status, reconnect_i, electionVars, wait_i,
                   new_primary_id, hist>>

(* close_connections(), lines 1727-1739 *)
close_connections(conn) == IF conn = "ok" THEN "closed" ELSE conn

(* terminate(), lines 1742-1756, run inside the signal handler.  It calls  *)
(* functions that are not async-signal-safe (PQfinish, the logger, exit):  *)
(* the process ends, or the handler never returns.                         *)
Terminate(n) ==
    \E outcome \in {"exited", "hung"} :
        /\ pc' = [pc EXCEPT ![n] = outcome]
        /\ primary_conn' = [primary_conn EXCEPT ![n] =
                                IF outcome = "exited" THEN close_connections(@) ELSE @]
        /\ local_conn' = [local_conn EXCEPT ![n] =
                              IF outcome = "exited" THEN close_connections(@) ELSE @]
        /\ UNCHANGED <<staticVars, node_status, signalVars, cmd_failed, primary_state,
                       voting_status, follow_target, node_role, local_node_info,
                       upstream_node_info, upstream_conn, failover_state,
                       standby_nodes, startup_event_logged, start_events, events,
                       upstream_node_status, reconnect_i, electionVars, wait_i,
                       new_primary_id, hist>>

(* handle_sigint(), lines 1625-1629, on SIGTERM: system() leaves SIGTERM   *)
(* alone, so the handler runs at any point, a running command included     *)
HandleSigterm(n) ==
    /\ HandlersInstalled(n)
    /\ Terminate(n)

(* handle_sigint(), lines 1625-1629, on SIGINT: system() ignores SIGINT in *)
(* the caller while the command runs, so the handler runs at any other     *)
(* point                                                                   *)
HandleSigint(n) ==
    /\ HandlersInstalled(n)
    /\ ~in_command[n]
    /\ Terminate(n)

(* the daemon the operator sends signals to *)
SignalledDaemon == PrimaryId + 1

NextSignal ==
    \/ KillPrimary
    \/ PrimaryReappears
    \/ \E n \in Standbys : Daemon(n) \/ CommandStart(n)
    \/ HandleSighup(SignalledDaemon)
    \/ HandleSigterm(SignalledDaemon)
    \/ HandleSigint(SignalledDaemon)

SignalSpec == InitPair /\ [][NextSignal]_vars

(* Two connected standbys; the database of the one that was promoted may  *)
(* stop, and the start of a promote or follow command is a step of its     *)
(* own.                                                                    *)
NextFollow ==
    \/ KillPrimary
    \/ PrimaryReappears
    \/ \E n \in Standbys :
          \/ Daemon(n)
          \/ CommandStart(n)
          \/ TryReconnectLocal(n)
          \/ LocalDown(n)

FollowSpec == InitPair /\ [][NextFollow]_vars

(* ------------------------------ typing -------------------------------- *)

TypeOK ==
    /\ primary_state \in {"up", "down", "reappeared"}
    /\ \A n \in Standbys :
         /\ start_events[n] \in Nat
         /\ voting_status[n] \in NodeVotingStatus
         /\ failover_mode[n] \in FailoverMode
         /\ follow_target[n] \in Standbys \cup {NoNode, PrimaryId}
         /\ failover_state[n] \in FailoverState
         /\ election_result[n] \in ElectionResult \cup {"NONE"}
         /\ upstream_node_status[n] \in NodeStatus
         /\ node_status[n] \in NodeStatus
         /\ got_SIGHUP[n] \in BOOLEAN
         /\ in_command[n] \in BOOLEAN
         /\ local_conn[n] \in ConnState
         /\ upstream_conn[n] \in ConnState
         /\ primary_conn[n] \in ConnState
         /\ reconnect_i[n] \in 0..max_attempts
         /\ wait_i[n] \in 0..wait_primary_timeout
         /\ visible_nodes[n] \in 1..NumStandbys
         /\ votes_for_me[n] \in 0..NumStandbys

(* ------------------ poll_best_candidate on its own -------------------- *)

(* every order in which a list can hold the nodes of S *)
ListsOf(S) ==
    {l \in [1..Cardinality(S) -> S] :
        \A i, j \in 1..Cardinality(S) : l[i] = l[j] => i = j}

(* the node record of poll node m *)
PollRecord(m) ==
    [node_id |-> m,
     last_wal_receive_lsn |-> poll.attrs[m].lsn,
     priority |-> poll.attrs[m].priority]

(* No daemon runs; a set of surviving nodes is given with its attributes,  *)
(* and no node has computed its best candidate yet.                        *)
InitPoll ==
    /\ active = {}
    /\ failover_mode = [n \in Standbys |-> "automatic"]
    /\ links = {}
    /\ lsn = [n \in Standbys |-> 1]
    /\ priority = [n \in Standbys |-> 1]
    /\ voting_status = [n \in Standbys |-> "NO_VOTE"]
    /\ InitDaemons({})
    /\ \E attrs \in [PollNodes -> [lsn : 1..MaxLsn, priority : 1..MaxPollPriority]],
          members \in SUBSET PollNodes :
         /\ Cardinality(members) >= 2
         /\ poll = [attrs |-> attrs, members |-> members, best |-> <<>>]

(* poll_best_candidate(), lines 1079-1118, run on node n, the other        *)
(* members being its sibling list, in any order                            *)
PollBestCandidate(n) ==
    /\ n \in poll.members
    /\ n \notin DOMAIN poll.best
    /\ \E order \in ListsOf(poll.members \ {n}) :
         LET nodes == [i \in 1..Len(order) |-> PollRecord(order[i])]
             best == poll_best_candidate(PollRecord(n), nodes)
         IN poll' = [poll EXCEPT !.best = (n :> best.node_id) @@ @]
    /\ UNCHANGED <<links, active, lsn, priority, failover_mode, local_down,
                   node_status, signalVars, cmd_failed, primary_state,
                   voting_status, follow_target, node_role, pc,
                   local_node_info, upstream_node_info, local_conn,
                   upstream_conn, primary_conn, failover_state, standby_nodes,
                   startup_event_logged, start_events, events, upstream_node_status,
                   reconnect_i, electionVars, wait_i, new_primary_id, hist>>

NextPoll == \E n \in PollNodes : PollBestCandidate(n)

PollSpec == InitPoll /\ [][NextPoll]_vars

(* ----------------------------- properties ---------------------------- *)

(* the standbys whose do_election returned WON.  The primary fails once,   *)
(* so every election of a run belongs to the round of that failure.        *)
Winners == {n \in Standbys : election_result[n] = "WON"}

(* C1: in the election round that follows the loss of the upstream, and    *)
(* whatever the links between the standbys, do_election returns WON on at  *)
(* most one node.                                                          *)
AtMostOneWinner == Cardinality(Winners) <= 1

(* a and b both claimed candidacy and each announced itself to the other   *)
(* while the other was candidate                                           *)
SimultaneousCandidates(a, b) ==
    /\ a # b
    /\ hist[a].claimed /\ hist[b].claimed
    /\ b \in hist[a].rivals
    /\ a \in hist[b].rivals

(* C2: of two standbys that both called set_voting_status_initiated and    *)
(* then announced themselves to each other, exactly one returns            *)
(* NOT_CANDIDATE: they never both withdraw.                                *)
OneCandidateRemains ==
    \A a, b \in Standbys :
        SimultaneousCandidates(a, b) =>
            Cardinality({c \in {a, b} : election_result[c] = "NOT_CANDIDATE"}) = 1

(* one primary and two standbys that reach each other and whose daemons    *)
(* are both monitoring; the primary was killed and stays down, and every   *)
(* promote and follow command succeeded                                    *)
TwoHealthyStandbys ==
    /\ Cardinality(active) = 2
    /\ links = {active}
    /\ \A n \in active : startup_event_logged[n]
    /\ primary_state = "down"
    /\ ~cmd_failed

(* n is the standby to promote: higher LSN, else lower id *)
Preferred(n) ==
    \A m \in active \ {n} : lsn[n] > lsn[m] \/ (lsn[n] = lsn[m] /\ n < m)

(* C3: with one primary and two healthy standbys, the primary killed and   *)
(* staying down and the commands succeeding, the standby whose promote_self *)
(* returns PROMOTED is the one with the higher LSN, else the lower id.     *)
PromotedIsPreferred ==
    TwoHealthyStandbys =>
        \A n \in active : hist[n].promote_result = "PROMOTED" => Preferred(n)

(* do_election of n has returned after polling a list of at least one      *)
(* sibling, none of which reported itself as candidate                     *)
ElectionTallied(n) ==
    /\ pc[n] = "election_done"
    /\ hist[n].claimed
    /\ hist[n].siblings # {}
    /\ ~other_node_is_candidate[n]

(* the own vote: 1 unless a visible sibling is strictly ahead *)
SelfVote(n) ==
    IF \E p \in hist[n].accepted : lsn[p] > lsn[n] THEN 0 ELSE 1

(* C4: with at least one sibling and no candidate among them, do_election  *)
(* returns WON iff votes_for_me = visible_nodes and LOST otherwise, where  *)
(* visible_nodes is 1 plus the siblings whose announce succeeded and       *)
(* votes_for_me the votes they granted plus the own vote, given only when  *)
(* no visible sibling is strictly ahead; unreachable siblings are in       *)
(* neither number.                                                         *)
ElectionResultIsTally ==
    \A n \in Standbys :
        ElectionTallied(n) =>
            /\ hist[n].accepted = {p \in hist[n].siblings : Reachable(n, p)}
            /\ hist[n].granted \subseteq hist[n].accepted
            /\ visible_nodes[n] = 1 + Cardinality(hist[n].accepted)
            /\ votes_for_me[n] = Cardinality(hist[n].granted) + SelfVote(n)
            /\ election_result[n] =
                   IF votes_for_me[n] = visible_nodes[n] THEN "WON" ELSE "LOST"

(* an election won with one sibling unreachable, the other two votes given *)
ElectionTalliedWitness ==
    \E n \in Standbys :
        /\ ElectionTallied(n)
        /\ hist[n].siblings \ hist[n].accepted # {}
        /\ hist[n].granted # {}
        /\ election_result[n] = "WON"

(* C5: when the sibling list do_election builds is empty it returns WON,   *)
(* having opened no connection to a peer, announced to none and asked none *)
(* for a vote, and promote_self is what the standby runs next.             *)
NoSiblingsWins ==
    \A n \in Standbys :
        (hist[n].claimed /\ hist[n].siblings = {}) =>
            /\ election_result[n] = "WON"
            /\ hist[n].opened = {}
            /\ hist[n].accepted = {}
            /\ hist[n].granted = {}
            /\ pc[n] = "election_done" \/ hist[n].promote_via = "WON"

(* an election over an empty list, after which promote_self has run *)
NoSiblingsWitness ==
    \E n \in Standbys :
        /\ hist[n].claimed
        /\ hist[n].siblings = {}
        /\ hist[n].promote_via = "WON"
        /\ hist[n].promote_result # "NONE"

(* a is above b in the order: highest LSN, then highest priority, then     *)
(* lowest node id                                                          *)
PollAbove(a, b) ==
    \/ poll.attrs[a].lsn > poll.attrs[b].lsn
    \/ /\ poll.attrs[a].lsn = poll.attrs[b].lsn
       /\ poll.attrs[a].priority > poll.attrs[b].priority
    \/ /\ poll.attrs[a].lsn = poll.attrs[b].lsn
       /\ poll.attrs[a].priority = poll.attrs[b].priority
       /\ a < b

(* C6: whatever the sibling list and the LSN, priority and id of self and  *)
(* siblings, poll_best_candidate returns the node that is maximal under    *)
(* highest LSN, then highest priority, then lowest node id.                *)
PollBestIsMaximal ==
    \A n \in DOMAIN poll.best :
        \A m \in poll.members \ {poll.best[n]} : PollAbove(poll.best[n], m)

(* C7: for a fixed set of nodes with fixed attributes, poll_best_candidate *)
(* run on any two of them, each with the others as its sibling list in any *)
(* order, returns the same node id.                                        *)
PollBestAgrees ==
    \A a, b \in DOMAIN poll.best : poll.best[a] = poll.best[b]

(* every reachable sibling of the list do_election built was sent          *)
(* notify_follow_primary(n)                                                *)
SiblingsToldToFollow(n) ==
    \A p \in hist[n].siblings : Reachable(n, p) => <<p, n>> \in hist[n].notified

(* C8: a candidate whose election outcome is WON has sent                  *)
(* notify_follow_primary with its own id to every reachable sibling by the *)
(* time it returns from the failover handling to the monitoring loop.      *)
WinnerNotifiesSiblings ==
    \A n \in Standbys :
        (election_result[n] = "WON" /\ hist[n].returned) => SiblingsToldToFollow(n)

(* C8, amended: a candidate whose election outcome is WON and whose        *)
(* promote_self returned PROMOTED has sent notify_follow_primary with its  *)
(* own id to every reachable sibling by the time it returns from the       *)
(* failover handling to the monitoring loop.                               *)
PromotedWinnerNotifiesSiblings ==
    \A n \in Standbys :
        (/\ election_result[n] = "WON"
         /\ hist[n].promote_result = "PROMOTED"
         /\ hist[n].returned) => SiblingsToldToFollow(n)

(* a promoted winner back in the monitoring loop, one sibling reachable    *)
(* and one not                                                             *)
PromotedWinnerWitness ==
    \E n \in Standbys :
        /\ election_result[n] = "WON"
        /\ hist[n].promote_result = "PROMOTED"
        /\ hist[n].returned
        /\ \E p, q \in hist[n].siblings : Reachable(n, p) /\ ~Reachable(n, q)

(* the promote command of n failed and get_primary_connection reported     *)
(* the failed upstream: PRIMARY_REAPPEARED with its event, nobody told to  *)
(* follow n, and the siblings told to follow the upstream on the way back  *)
ReappearedOutcome(n) ==
    LET upstream == local_node_info[n].upstream_node_id
    IN /\ hist[n].promote_result = "PRIMARY_REAPPEARED"
       /\ "repmgrd_failover_abort" \in events[n]
       /\ \A e \in hist[n].notified : e[2] # n
       /\ IF hist[n].returned
          THEN \A p \in hist[n].listed :
                   Reachable(n, p) => <<p, upstream>> \in hist[n].notified
          ELSE pc[n] = "failover_switch"

(* what promote_self owes after a failed command *)
FailedPromoteOutcome(n) ==
    IF /\ hist[n].primary_found # NoNode
       /\ hist[n].primary_found = local_node_info[n].upstream_node_id
    THEN ReappearedOutcome(n)
    ELSE hist[n].promote_result = "PROMOTION_FAILED"

(* C9: when the promote command exits non-zero and get_primary_connection  *)
(* reports a primary whose id is that of the failed upstream, promote_self *)
(* returns PRIMARY_REAPPEARED, repmgrd_failover_abort is recorded, no      *)
(* sibling is told to follow this node and the siblings are told to follow *)
(* the original upstream before monitoring resumes; when the command fails *)
(* and no such primary is found the result is PROMOTION_FAILED.            *)
PromoteFailureOutcome ==
    \A n \in Standbys :
        (hist[n].promote_result # "NONE" /\ hist[n].promote_r # 0) =>
            FailedPromoteOutcome(n)

(* C9, amended: the same, for a promote command that exits non-zero and    *)
(* after which the local connection is open or could be reopened; when it  *)
(* cannot be reopened promote_self returns LOCAL_NODE_FAILURE, whatever    *)
(* primary is reachable.                                                   *)
PromoteFailureOutcomeConnected ==
    \A n \in Standbys :
        (/\ hist[n].promote_result \notin {"NONE", "LOCAL_NODE_FAILURE"}
         /\ hist[n].promote_r # 0) => FailedPromoteOutcome(n)

(* a failed promotion that found the original primary, back in monitoring  *)
(* with a sibling told to follow that primary                              *)
ReappearedWitness ==
    \E n \in Standbys :
        /\ hist[n].promote_r # 0
        /\ hist[n].promote_result = "PRIMARY_REAPPEARED"
        /\ hist[n].returned
        /\ \E p \in hist[n].listed : <<p, PrimaryId>> \in hist[n].notified

(* C10: once the failover state is PROMOTION_FAILED or FOLLOW_FAIL the     *)
(* switch on it hands control back to start_monitoring.                    *)
FailureReturnsToStartMonitoring ==
    [][\A n \in Standbys :
          (/\ pc[n] = "failover_switch"
           /\ failover_state[n] \in {"PROMOTION_FAILED", "FOLLOW_FAIL"}
           /\ pc'[n] # pc[n]) => pc'[n] = "start_monitoring"]_vars

(* the step of n, if any, leaves wait_primary_notification as the code    *)
(* does: a poll that reports a primary returns it at once, a poll that     *)
(* reports none is counted, and after wait_primary_timeout polls without   *)
(* one the state is NO_NEW_PRIMARY                                         *)
WaitStep(n) ==
    (pc[n] = "wait_primary_notification" /\ <<pc[n], wait_i[n]>>' # <<pc[n], wait_i[n]>>) =>
        IF wait_i[n] = wait_primary_timeout
        THEN /\ pc'[n] = "failover_switch"
             /\ failover_state'[n] = "NO_NEW_PRIMARY"
        ELSE IF local_conn[n] = "ok" /\ follow_target[n] # NoNode
        THEN /\ pc'[n] # "wait_primary_notification"
             /\ new_primary_id'[n] = follow_target[n]
             /\ failover_state'[n] # "NO_NEW_PRIMARY"
        ELSE /\ pc'[n] = "wait_primary_notification"
             /\ wait_i'[n] = wait_i[n] + 1

(* NO_NEW_PRIMARY hands control back to start_monitoring *)
NoNewPrimaryStep(n) ==
    (/\ pc[n] = "failover_switch"
     /\ failover_state[n] = "NO_NEW_PRIMARY"
     /\ pc'[n] # pc[n]) => pc'[n] = "start_monitoring"

(* C11: wait_primary_notification polls get_new_primary at most 60 times,  *)
(* returns the reported id at the first poll that reports a primary and    *)
(* false after 60 polls without one; then the failover state is            *)
(* NO_NEW_PRIMARY, control returns to start_monitoring, and do_election is *)
(* entered again unless the upstream has come back.                        *)
WaitTimesOutAndReelects ==
    /\ [][\A n \in Standbys : WaitStep(n) /\ NoNewPrimaryStep(n)]_vars
    /\ \A n \in Standbys :
         (pc[n] = "failover_switch" /\ failover_state[n] = "NO_NEW_PRIMARY")
             ~> (pc[n] = "do_election" \/ primary_state = "reappeared")

(* the wait of a daemon has timed out after wait_primary_timeout polls *)
WaitTimedOutWitness ==
    \E n \in Standbys :
        /\ pc[n] = "failover_switch"
        /\ failover_state[n] = "NO_NEW_PRIMARY"
        /\ wait_i[n] = wait_primary_timeout


(* positions of a daemon between the return of follow_new_primary and the *)
(* next loss of its upstream                                               *)
StandbyMonitoringPcs ==
    {"failover_switch", "start_monitoring", "monitor_streaming_standby",
     "standby_loop", "try_reconnect"}

PromotedState(n) ==
    /\ local_node_info[n].type = "PRIMARY"
    /\ local_node_info[n].upstream_node_id = NoNode
    /\ IF hist[n].returned
       THEN /\ pc[n] \in {"start_monitoring", "monitor_streaming_primary", "primary_loop"}
            /\ \A p \in hist[n].listed : Reachable(n, p) => <<p, n>> \in hist[n].notified
       ELSE pc[n] = "failover_switch"

(* C13: once promote_self has returned PROMOTED the node's record has type *)
(* PRIMARY and no upstream; when the switch is left the siblings it can     *)
(* reach have been told to follow it, control is in start_monitoring or in *)
(* primary monitoring, never in standby monitoring, and the primary         *)
(* monitoring loop is eventually reached.                                   *)
PromotedMonitorsAsPrimary ==
    /\ [](\A n \in Standbys : hist[n].promote_result = "PROMOTED" => PromotedState(n))
    /\ \A n \in Standbys :
         (hist[n].promote_result = "PROMOTED") ~> (pc[n] = "primary_loop")

PromotedMonitoringWitness ==
    \E n \in Standbys :
        /\ hist[n].promote_result = "PROMOTED"
        /\ hist[n].listed # {}
        /\ pc[n] = "primary_loop"

(* one step of try_reconnect on node n: an attempt that fails counts one   *)
(* more probe and stays; the call returns UP with an open handle, while    *)
(* the server is available and before max_attempts probes have failed, or  *)
(* DOWN with a null handle once max_attempts probes have failed            *)
TryReconnectStep(n) ==
    (pc[n] = "try_reconnect" /\ <<pc[n], reconnect_i[n]>>' # <<pc[n], reconnect_i[n]>>) =>
        \/ /\ pc'[n] = "try_reconnect"
           /\ reconnect_i'[n] = reconnect_i[n] + 1
           /\ reconnect_i'[n] <= max_attempts
           /\ upstream_node_status'[n] = "UNKNOWN"
        \/ /\ pc'[n] # "try_reconnect"
           /\ reconnect_i[n] < max_attempts
           /\ is_server_available(n, upstream_node_info[n])
           /\ upstream_node_status'[n] = "UP"
           /\ upstream_conn'[n] = "ok"
        \/ /\ pc'[n] # "try_reconnect"
           /\ reconnect_i[n] = max_attempts
           /\ upstream_node_status'[n] = "DOWN"
           /\ upstream_conn'[n] = "null"

(* C14: every call of try_reconnect ends, after at most max_attempts       *)
(* probes; it returns UP with an open handle or DOWN with a null handle,   *)
(* and the status is UNKNOWN only while the call is running.               *)
TryReconnectTerminates ==
    /\ [][\A n \in Standbys : TryReconnectStep(n)]_vars
    /\ [](\A n \in Standbys :
            /\ reconnect_i[n] <= max_attempts
            /\ (upstream_node_status[n] = "UNKNOWN") <=> (pc[n] = "try_reconnect"))
    /\ \A n \in Standbys : (pc[n] = "try_reconnect") ~> (pc[n] # "try_reconnect")

TryReconnectWitness ==
    \E n, m \in Standbys :
        /\ pc[n] = "do_election" /\ upstream_node_status[n] = "DOWN"
        /\ reconnect_i[n] = max_attempts
        /\ pc[m] = "standby_loop" /\ upstream_node_status[m] = "UP"
        /\ reconnect_i[m] \in 1..(max_attempts - 1)

(* one step of main() on node n *)
MainStep(n) ==
    (pc[n] = "main" /\ pc'[n] # "main") =>
        IF n \notin active /\ failover_mode[n] = "automatic"
        THEN pc'[n] = "exited"
        ELSE pc'[n] = "start_monitoring"

(* C15: a daemon whose node record is inactive and whose failover_mode is  *)
(* automatic ends in main() and never starts monitoring; with              *)
(* failover_mode manual, or an active record, main() goes on to            *)
(* start_monitoring.                                                       *)
InactiveAutomaticExits ==
    /\ [][\A n \in Standbys : MainStep(n)]_vars
    /\ [](\A n \in Standbys :
            (n \notin active /\ failover_mode[n] = "automatic") =>
                pc[n] \in {"stopped", "main", "exited"})

InactiveStartupWitness ==
    \E n, m \in Standbys :
        /\ n \notin active /\ failover_mode[n] = "automatic" /\ pc[n] = "exited"
        /\ m \notin active /\ failover_mode[m] = "manual" /\ pc[m] = "standby_loop"

(* C16: a daemon whose failover_mode is manual never claims candidacy and  *)
(* never runs the promote or the follow command.                           *)
ManualOnlyMonitors ==
    \A n \in Standbys :
        failover_mode[n] = "manual" =>
            /\ ~hist[n].claimed
            /\ voting_status[n] # "VOTE_INITIATED"
            /\ pc[n] \notin {"promote_self", "promote_self_notified", "follow_new_primary"}
            /\ hist[n].promote_result = "NONE"
            /\ hist[n].followed = NoNode

(* positions of a daemon inside do_election *)
ElectionPcs ==
    {"do_election", "set_voting_status_initiated", "announce_candidature",
     "request_vote", "election_done"}

(* do_election is entered on node n *)
ElectionEntered(n) == pc[n] # "do_election" /\ pc'[n] = "do_election"

(* C17: do_election is entered only from the try_reconnect that standby    *)
(* monitoring called, once max_attempts attempts have failed and the       *)
(* status DOWN is reported; while a daemon is in do_election its upstream  *)
(* status is DOWN, never UP or UNKNOWN.                                    *)
ElectionOnlyAfterDown ==
    /\ [][\A n \in Standbys :
            ElectionEntered(n) =>
                /\ pc[n] = "try_reconnect"
                /\ upstream_node_status[n] = "UNKNOWN"
                /\ reconnect_i[n] = max_attempts
                /\ upstream_node_status'[n] = "DOWN"
                /\ local_node_info[n].type = "STANDBY"]_vars
    /\ [](\A n \in Standbys :
            pc[n] \in ElectionPcs =>
                upstream_node_status[n] = "DOWN" /\ reconnect_i[n] = max_attempts)

ElectionAfterDownWitness ==
    \E n \in Standbys :
        /\ pc[n] = "request_vote"
        /\ upstream_node_status[n] = "DOWN"
        /\ hist[n].claimed
        /\ reconnect_i[n] = max_attempts

(* the status of the local node of n goes from a to b *)
LocalStatusStep(n, a, b) == node_status[n] = a /\ node_status'[n] = b

(* C18: in primary monitoring every transition of the status of the local  *)
(* node, UP to UNKNOWN, UNKNOWN to UP and UNKNOWN to DOWN, writes an event *)
(* record: repmgrd_local_disconnect at the loss, repmgrd_local_reconnect   *)
(* at the reconnection, and some record when the node is given up.         *)
LocalTransitionsRecorded ==
    [][\A n \in Standbys :
          /\ LocalStatusStep(n, "UP", "UNKNOWN") =>
                 "repmgrd_local_disconnect" \in events'[n]
          /\ LocalStatusStep(n, "UNKNOWN", "UP") =>
                 "repmgrd_local_reconnect" \in events'[n]
          /\ LocalStatusStep(n, "UNKNOWN", "DOWN") =>
                 events'[n] # events[n]]_vars

(* the event that records each failover outcome *)
OutcomeEvent ==
    [PROMOTED |-> "repmgrd_failover_promote",
     FOLLOWED_NEW_PRIMARY |-> "repmgrd_failover_follow",
     PRIMARY_REAPPEARED |-> "repmgrd_failover_abort"]

(* C19: when promote_self or follow_new_primary has returned PROMOTED,     *)
(* FOLLOWED_NEW_PRIMARY or PRIMARY_REAPPEARED, the daemon has written the  *)
(* event record of that outcome: repmgrd_failover_promote,                 *)
(* repmgrd_failover_follow or repmgrd_failover_abort.                      *)
FailoverOutcomeRecorded ==
    \A n \in Standbys :
        (pc[n] = "failover_switch" /\ failover_state[n] \in DOMAIN OutcomeEvent) =>
            OutcomeEvent[failover_state[n]] \in events[n]

(* C20: signal delivery only sets flags, which the main loop reads at a    *)
(* defined point; in particular a daemon that is waiting for its promote   *)
(* or follow command does not end before the command has returned.        *)
TerminationWaitsForCommand ==
    [][\A n \in Standbys :
          in_command[n] => pc'[n] \notin {"exited", "hung"}]_vars

(* the step of n, if any, that leaves wait_primary_notification with a     *)
(* notification goes where the id X it names says                          *)
NotifiedStep(n) ==
    (/\ pc[n] = "wait_primary_notification"
     /\ pc'[n] # pc[n]
     /\ failover_state'[n] # "NO_NEW_PRIMARY") =>
        LET X == new_primary_id'[n]
        IN /\ X = follow_target[n]
           /\ failover_state[n] = "WAITING_NEW_PRIMARY"
           /\ IF X = upstream_node_info[n]
              THEN /\ failover_state'[n] = "FOLLOWING_ORIGINAL_PRIMARY"
                   /\ pc'[n] = "failover_switch"
              ELSE IF X = n
              THEN pc'[n] = "promote_self_notified"
              ELSE pc'[n] = "follow_new_primary"

(* the step of n that ends follow_new_primary *)
FollowResultStep(n) ==
    (pc[n] = "follow_new_primary" /\ pc'[n] # pc[n]) =>
        failover_state'[n] \in {"FOLLOWED_NEW_PRIMARY", "FOLLOW_FAIL", "PRIMARY_REAPPEARED"}

(* C21: a standby in WAITING_NEW_PRIMARY that is notified of X goes to     *)
(* FOLLOWING_ORIGINAL_PRIMARY without running the promote or the follow    *)
(* command when X is the lost upstream, runs promote_self when X is the     *)
(* node itself, and otherwise runs follow_new_primary(X), which returns    *)
(* FOLLOWED_NEW_PRIMARY, FOLLOW_FAIL or PRIMARY_REAPPEARED.                 *)
NotificationDispatched ==
    /\ [][\A n \in Standbys : NotifiedStep(n) /\ FollowResultStep(n)]_vars
    /\ [](\A n \in Standbys :
            failover_state[n] = "FOLLOWING_ORIGINAL_PRIMARY" =>
                /\ hist[n].promote_result = "NONE"
                /\ hist[n].followed = NoNode
                /\ ~in_command[n])

NotifiedOfOriginalWitness ==
    \E n \in Standbys :
        /\ pc[n] = "failover_switch"
        /\ failover_state[n] = "FOLLOWING_ORIGINAL_PRIMARY"
        /\ new_primary_id[n] = upstream_node_info[n]

(* the step of n that starts the follow command: the new primary answers   *)
(* as a primary and the local connection is closed                         *)
FollowCommandStartStep(n) ==
    (pc[n] = "follow_new_primary" /\ ~in_command[n] /\ in_command'[n]) =>
        /\ is_server_available(n, new_primary_id[n])
        /\ recovery_type(new_primary_id[n]) = "PRIMARY"
        /\ local_conn'[n] = "null"

(* the step of n that ends follow_new_primary: unless the command was      *)
(* started before, or the new primary answers as a primary, no command is  *)
(* run and the result is FOLLOW_FAIL                                       *)
FollowCommandStep(n) ==
    (pc[n] = "follow_new_primary" /\ pc'[n] # pc[n]) =>
        IF \/ in_command[n]
           \/ /\ is_server_available(n, new_primary_id[n])
              /\ recovery_type(new_primary_id[n]) = "PRIMARY"
        THEN hist'[n].follow_ran
        ELSE /\ ~hist'[n].follow_ran
             /\ failover_state'[n] = "FOLLOW_FAIL"
             /\ cmd_failed' = cmd_failed

LostBestCandidate(n) ==
    poll_best_candidate(LocalCandidate(n),
                        get_active_sibling_node_records(n, local_conn[n])).node_id

(* one step of n out of a lost election, lines 681-732 *)
LostElectionStep(n) ==
    (pc[n] = "election_done" /\ election_result[n] = "LOST" /\ pc'[n] # "election_done") =>
        LET best == LostBestCandidate(n)
        IN IF best = n
           THEN /\ pc'[n] = "promote_self"
                /\ follow_target' = follow_target
           ELSE IF establish_db_connection(n, best) = "ok"
           THEN /\ follow_target'[best] = best
                /\ \A p \in Standbys \ {best} : follow_target'[p] = follow_target[p]
                /\ failover_state'[n] = "WAITING_NEW_PRIMARY"
                /\ pc'[n] = "wait_primary_notification"
           ELSE /\ follow_target' = follow_target
                /\ failover_state'[n] = "NODE_NOTIFICATION_ERROR"
                /\ pc'[n] = "failover_switch"

(* C23: after a lost election, a pick other than the local node is sent    *)
(* notify_follow_primary naming the pick itself and the node waits when    *)
(* the connection to the pick is OK; when it is not OK the state is        *)
(* NODE_NOTIFICATION_ERROR, nothing is sent and the node does not wait;    *)
(* when the pick is the local node promote_self is run                     *)
LostElectionNotifiesCandidate ==
    [][\A n \in Standbys : LostElectionStep(n)]_vars

LostNotificationErrorWitness ==
    \E n \in Standbys :
        /\ pc[n] = "failover_switch"
        /\ failover_state[n] = "NODE_NOTIFICATION_ERROR"
        /\ election_result[n] = "LOST"

(* one announcement of n to a reachable sibling that is itself candidate *)
RejectedAnnouncementStep(n) ==
    (/\ pc[n] = "announce_candidature"
     /\ pc'[n] # "announce_candidature" \/ cell'[n] # cell[n]
     /\ establish_db_connection(n, standby_nodes[n][cell[n]].node_id) = "ok"
     /\ voting_status[standby_nodes[n][cell[n]].node_id] = "VOTE_INITIATED") =>
        /\ pc'[n] = "election_done"
        /\ election_result'[n] = "NOT_CANDIDATE"
        /\ other_node_is_candidate'[n]
        /\ voting_status' = voting_status

(* C24: a sibling that rejects the announcement because it is candidate    *)
(* ends the election at once: no further sibling is announced to, no       *)
(* request_vote is sent in that round, and NOT_CANDIDATE is returned       *)
RejectionAbandonsElection ==
    /\ [][\A n \in Standbys : RejectedAnnouncementStep(n)]_vars
    /\ [](\A n \in Standbys :
            other_node_is_candidate[n] =>
                /\ pc[n] \notin {"announce_candidature", "request_vote"}
                /\ hist[n].requested = {}
                /\ election_result[n] = "NOT_CANDIDATE")

RejectedWithSiblingLeftWitness ==
    \E n \in Standbys :
        /\ pc[n] = "election_done"
        /\ other_node_is_candidate[n]
        /\ hist[n].siblings \ hist[n].opened # {}

(* the step of n that reads its own voting status, lines 1350-1359 *)
ReadOwnStatusStep(n) ==
    (pc[n] = "do_election" /\ pc'[n] # "do_election") =>
        IF get_voting_status(n) = "VOTE_REQUEST_RECEIVED"
        THEN /\ pc'[n] = "election_done"
             /\ election_result'[n] = "NOT_CANDIDATE"
             /\ ~hist'[n].claimed
             /\ hist'[n].opened = {}
             /\ voting_status' = voting_status
        ELSE pc'[n] = "set_voting_status_initiated"

(* C25: with the own status VOTE_REQUEST_RECEIVED do_election returns      *)
(* NOT_CANDIDATE without set_voting_status_initiated and without a         *)
(* connection to any sibling; in every other status candidacy is claimed   *)
(* before any sibling is contacted                                         *)
RequestedVoterIsNotCandidate ==
    /\ [][\A n \in Standbys : ReadOwnStatusStep(n)]_vars
    /\ [](\A n \in Standbys :
            /\ hist[n].opened # {} => hist[n].claimed
            /\ pc[n] \in {"announce_candidature", "request_vote"} => hist[n].claimed
            /\ (pc[n] = "election_done" /\ ~hist[n].claimed) =>
                   /\ election_result[n] = "NOT_CANDIDATE"
                   /\ hist[n].opened = {})

RequestedVoterWitness ==
    \E n \in Standbys :
        /\ pc[n] = "election_done"
        /\ election_result[n] = "NOT_CANDIDATE"
        /\ ~hist[n].claimed
        /\ voting_status[n] = "VOTE_REQUEST_RECEIVED"

(* C26: a node that withdrew its candidacy because a sibling was candidate *)
(* is no longer VOTE_INITIATED while it waits for a new primary            *)
WithdrawnCandidateIsReset ==
    \A n \in Standbys :
        (/\ pc[n] = "wait_primary_notification"
         /\ election_result[n] = "NOT_CANDIDATE"
         /\ hist[n].claimed) => voting_status[n] # "VOTE_INITIATED"

(* one pass of n through the head of the loop of start_monitoring *)
DispatchStep(n) ==
    (pc[n] = "start_monitoring" /\ pc'[n] # "start_monitoring") =>
        /\ failover_state'[n] = "NONE"
        /\ voting_status'[n] = "NO_VOTE"

(* C27: every iteration of the loop of start_monitoring leaves the         *)
(* failover state NONE and the voting status cleared when it enters        *)
(* primary or standby monitoring                                           *)
DispatchResetsVotingStatus ==
    [][\A n \in Standbys : DispatchStep(n)]_vars

(* the switch on failover_state returns n to start_monitoring *)
ReturnToMonitorStep(n) ==
    (pc[n] = "failover_switch" /\ pc'[n] = "start_monitoring") =>
        standby_nodes'[n] = <<>>

(* C28: each time the failover handling returns control to                 *)
(* start_monitoring the sibling list has been cleared                      *)
SiblingListClearedOnReturn ==
    [][\A n \in Standbys : ReturnToMonitorStep(n)]_vars

(* the siblings of the list of n whose connection object was not finished *)
UnfinishedPeers(n) ==
    {standby_nodes[n][i].node_id :
        i \in {j \in 1..Len(standby_nodes[n]) :
                  standby_nodes[n][j].conn \in {"ok", "bad"}}}

(* C29: when do_election has returned, every connection it opened to a     *)
(* sibling, reachable or not, has been closed                              *)
ElectionClosesPeerConnections ==
    \A n \in Standbys : pc[n] = "election_done" => UnfinishedPeers(n) = {}

(* startup_event_logged of n is never set back to false *)
StartupLatchStep(n) == startup_event_logged[n] => startup_event_logged'[n]

(* C30: repmgrd_start is recorded at the first entry to a monitor and at   *)
(* most once: startup_event_logged is latched, so a later dispatch, a      *)
(* switch from standby to primary monitoring included, records no second   *)
(* repmgrd_start                                                           *)
StartEventOnce ==
    /\ [][\A n \in Standbys : StartupLatchStep(n)]_vars
    /\ [](\A n \in Standbys :
            /\ start_events[n] <= 1
            /\ startup_event_logged[n] <=> (start_events[n] = 1)
            /\ pc[n] \in {"primary_loop", "standby_loop"} => start_events[n] = 1)

StartOncePromotedWitness ==
    \E n \in Standbys :
        /\ pc[n] = "primary_loop"
        /\ hist[n].promote_result = "PROMOTED"
        /\ start_events[n] = 1

(* one step of the cluster seen from a primary monitor that gave up *)
FailedStateStep(n) ==
    node_status[n] = "DOWN" =>
        /\ node_status'[n] = "DOWN"
        /\ pc'[n] = pc[n]
        /\ reconnect_i'[n] = reconnect_i[n]
        /\ local_conn'[n] = local_conn[n]
        /\ events'[n] = events[n]

(* C31: in primary monitoring, once try_reconnect has reported the local   *)
(* node DOWN the status never returns to UP, no reconnect is attempted and *)
(* no event is recorded, even if the local node becomes available again    *)
PrimaryDownIsFinal ==
    /\ [][\A n \in Standbys : FailedStateStep(n)]_vars
    /\ [](\A n \in Standbys :
            node_status[n] = "DOWN" =>
                pc[n] = "primary_loop" /\ local_conn[n] = "null")

PrimaryDownAvailableWitness ==
    \E n \in Standbys :
        /\ node_status[n] = "DOWN"
        /\ pc[n] = "primary_loop"
        /\ is_server_available(n, n)

(* the handles close_connections() passes to PQstatus, lines 1729 and 1737 *)
CheckedByCloseConnections(n) == {primary_conn[n], local_conn[n]}

(* a signal handler of n runs terminate(), which calls close_connections() *)
SignalTerminationStep(n) ==
    (HandlersInstalled(n) /\ pc'[n] \in {"exited", "hung"}) =>
        "closed" \notin CheckedByCloseConnections(n)

(* C32: no connection handle is used after it has been closed, termination *)
(* by a signal at any point included: close_connections never checks the   *)
(* status of a handle that was already closed                              *)
NoUseAfterClose ==
    [][\A n \in Standbys : SignalTerminationStep(n)]_vars

(* C33: within one failover attempt a node runs at most one external       *)
(* command: the promote command at most once, the follow command at most   *)
(* once, and never both                                                    *)
OneCommandPerAttempt ==
    \A n \in Standbys :
        /\ hist[n].commands <= 1
        /\ ~(hist[n].promote_result # "NONE" /\ hist[n].follow_ran)

LostThenFollowedWitness ==
    \E n \in Standbys :
        /\ pc[n] = "failover_switch"
        /\ election_result[n] = "LOST"
        /\ hist[n].follow_ran
        /\ hist[n].commands = 1

(* the notifications <<peer, target>> n sends in one step *)
SentNow(n) == hist'[n].notified \ hist[n].notified

(* what allows n to send notify_follow_primary(conn to p, t) *)
NotificationAllowed(n, p, t) ==
    \/ /\ t = n
       /\ pc[n] = "failover_switch"
       /\ failover_state[n] = "PROMOTED"
       /\ hist[n].promote_result = "PROMOTED"
       /\ hist[n].promote_r = 0
    \/ /\ t = upstream_node_info[n]
       /\ pc[n] = "failover_switch"
       /\ failover_state[n] = "PRIMARY_REAPPEARED"
    \/ /\ t = p
       /\ pc[n] = "election_done"
       /\ election_result[n] = "LOST"
       /\ t = LostBestCandidate(n)

(* C34: every notify_follow_primary names the sender itself, in state      *)
(* PROMOTED after its promote command succeeded; or the original upstream, *)
(* in state PRIMARY_REAPPEARED; or the best candidate, sent to that        *)
(* candidate alone after a LOST election                                   *)
NotificationTargets ==
    [][\A n \in Standbys :
          \A x \in SentNow(n) : NotificationAllowed(n, x[1], x[2])]_vars

ReappearedNotifiedWitness ==
    \E n \in Standbys :
        /\ hist[n].promote_result = "PRIMARY_REAPPEARED"
        /\ hist[n].returned
        /\ \E p \in Standbys : <<p, upstream_node_info[n]>> \in hist[n].notified
====
